---- MODULE Spec2Model ----
(***************************************************************************)
(* Verification model of the transparent-company trust kernel: the         *)
(* governance engine, the signed hash-chained ledger store and the         *)
(* projection engine, as they are written under src/app.                   *)
(*                                                                         *)
(* Encoding conventions                                                    *)
(*   - a Python dict is a TLA+ record / function from keys;                *)
(*   - an Optional value is a sequence: <<>> is None, <<v>> is the value v;*)
(*   - SHA-256 is a collision-free oracle: the digest of an event is       *)
(*     <<"sha256", i>>, i the place of its preimage in the table hashed of *)
(*     everything hashed so far; equal inputs get equal digests, different *)
(*     inputs different ones;                                              *)
(*   - an Ed25519 signature is <<"ed25519", seed, message>>;               *)
(*   - an action string "kind:name" is the pair <<kind, name>>.            *)
(***************************************************************************)
EXTENDS Integers, Sequences, FiniteSets, TLC

VARIABLES
    ledger,          \* rows of ledger_events the session sees, in seq_id order
    orders_view,     \* persistent OrderViewModel objects, keyed by order_id
    inventory_view,  \* persistent InventoryViewModel objects, keyed by <<sku, batch_id>>
    new_orders,      \* OrderViewModel objects added to the session, not flushed yet
    new_lots,        \* InventoryViewModel objects added to the session, not flushed yet
    committed,       \* the database as of the last commit
    failed,          \* the session's flush raised: only rollback is possible
    result,          \* outcome of the last call
    hashed,          \* every event preimage SHA-256 was computed of, in first-use order
    pc,              \* concurrent appenders: position of each appender
    held,            \* concurrent appenders: what each one holds between its steps
    uncommitted,     \* concurrent appenders: rows each one inserted and has not committed
    replay,          \* rebuild_all_read_models in progress: its phase, position and costs
    aggregate,       \* InventoryAggregate.lots: per sku, the lots in FIFO order
    reveal_tokens,   \* persistent SelectiveRevealTokenModel rows, keyed by token_id
    new_tokens,      \* token rows added to the session, not flushed yet
    reveal_audit,    \* rows of selective_reveal_audit, in id order
    new_audit,       \* audit rows added to the session, not flushed yet
    clock,           \* the wall clock, in seconds
    merkle,          \* a Merkle tree built over leaf hashes, with a proof under verification
    commitments,     \* disclosure computations over the ledger and the commitments built of them
    disclosure_runs, \* rows of disclosure_runs, keyed by disclosure_id
    disclosure_metrics,          \* rows of disclosure_metrics, in insertion order
    disclosure_grouped_metrics,  \* rows of disclosure_grouped_metrics, in insertion order
    anchor_records,  \* rows of anchor_records (the local mirror), keyed by anchor key
    committed_disclosure,  \* the disclosure and anchor tables as of the last commit
    immudb,          \* the external anchor store: what the immudb backend was made to hold
    publish,         \* a publish request in progress: its position and what it holds
    today,           \* the wall clock of the publish paths, in days
    orchestrator,    \* an AgentOrchestrator.run in progress: its position, futures and worker pool
    skill            \* a SkillExecutor.run in progress: its position, route and outcome

vars == <<ledger, orders_view, inventory_view, new_orders, new_lots, committed,
          failed, result, hashed, pc, held, uncommitted, replay, aggregate,
          reveal_tokens, new_tokens, reveal_audit, new_audit, clock, merkle,
          commitments, disclosure_runs, disclosure_metrics, disclosure_grouped_metrics,
          anchor_records, committed_disclosure, publish, immudb, today, orchestrator, skill>>

(***************************************************************************)
(* Bounds of the model.                                                    *)
(***************************************************************************)
MaxEvents == 3

(***************************************************************************)
(* Generic helpers.                                                        *)
(***************************************************************************)
None == <<>>

Some(v) == <<v>>

\* Python truthiness of an Optional[int] / Optional[str]: None, 0 and "" are falsy.
TruthyInt(opt) == opt # None /\ opt[1] # 0

TruthyStr(opt) == opt # None /\ opt[1] # ""

EmptyDict == [k \in {} |-> k]

Get(d, k, default) == IF k \in DOMAIN d THEN d[k] ELSE default

RECURSIVE SumSeq(_)
SumSeq(s) == IF s = <<>> THEN 0 ELSE Head(s) + SumSeq(Tail(s))

SeqToSet(s) == {s[i] : i \in 1..Len(s)}

(***************************************************************************)
(* src/app/ledger/canonical.py, src/app/ledger/signing.py                  *)
(***************************************************************************)
\* canonical_json: the UTF-8 bytes of the JSON text with sorted keys and no
\* whitespace. Keys being sorted, the text of a dict does not depend on key
\* order, which a record has none of; the bytes are kept apart from the
\* object they encode.
canonical_json(value) == <<"json", value>>

\* The place of a preimage in the table, or the next free place.
PlaceOf(table, bytes) ==
    IF \E i \in 1..Len(table) : table[i] = bytes
    THEN CHOOSE i \in 1..Len(table) : table[i] = bytes
    ELSE Len(table) + 1

\* sha256(canonical_json(value)).hexdigest(), given what was hashed before.
sha256_hex(table, value) == <<"sha256", PlaceOf(table, canonical_json(value))>>

\* The table after value was hashed.
Hashed(table, value) ==
    IF PlaceOf(table, canonical_json(value)) <= Len(table) THEN table
    ELSE Append(table, canonical_json(value))

\* "0" * 64, the prev_hash of the first event: the digest of nothing hashed.
ZeroHash == <<"sha256", 0>>

Roles == {"agent", "human", "auditor"}

ActorTypes == {"agent", "human", "system", "auditor"}

\* settings.<role>_signing_key: three distinct seeds (core/config.py).
SigningSeed(role) ==
    CASE role = "agent" -> "DEFAULT_AGENT_SIGNING_KEY"
      [] role = "human" -> "DEFAULT_HUMAN_SIGNING_KEY"
      [] role = "auditor" -> "DEFAULT_AUDITOR_SIGNING_KEY"

load_role_key(role) == [key_id |-> role, signing_key |-> SigningSeed(role)]

\* The verify key is determined by the seed.
public_key_b64(key) == <<"pub", key.signing_key>>

sign_object(value, key) == <<"ed25519", key.signing_key, canonical_json(value)>>

verify_object(value, signature_b64, public_key) ==
    signature_b64 = <<"ed25519", public_key[2], canonical_json(value)>>

(***************************************************************************)
(* src/app/core/key_management.py                                          *)
(***************************************************************************)
expected_signer_role(actor_type) ==
    IF actor_type = "human" THEN "human"
    ELSE IF actor_type = "auditor" THEN "auditor"
    ELSE "agent"

\* Mutant: any signer is accepted for any actor.
assert_signer_matches_actor_any(actor_type, signer_role) == TRUE

\* TRUE when assert_signer_matches_actor returns, FALSE when it raises ValueError.
assert_signer_matches_actor(actor_type, signer_role) ==
    signer_role = expected_signer_role(actor_type)

(***************************************************************************)
(* src/app/governance/policy_engine.py                                     *)
(***************************************************************************)
Action(kind, name) == <<kind, name>>

DEFAULT_GOVERNANCE_POLICY ==
    [policy_id |-> "governance_policy_v1",
     version |-> "1.0.0",
     rules |-> <<
        [rule_id |-> "procurement_gt_5000_human",
         action |-> Action("event", "ProcurementOrdered"),
         conditions |-> << [field |-> "derived.procurement_total_cents",
                            op |-> "gt", value |-> 500000] >>,
         required_actor_types |-> {"human"},
         required_signer |-> "human",
         approval_chain |-> <<"human">>],
        [rule_id |-> "bank_transfer_human_only",
         action |-> Action("tool", "payment.bank_transfer"),
         conditions |-> <<>>,
         required_actor_types |-> {"human"},
         required_signer |-> "human",
         approval_chain |-> <<"human">>],
        [rule_id |-> "tax_submit_human_only",
         action |-> Action("tool", "tax.submit_final"),
         conditions |-> <<>>,
         required_actor_types |-> {"human"},
         required_signer |-> "human",
         approval_chain |-> <<"human">>],
        [rule_id |-> "major_contract_human_only",
         action |-> Action("tool", "esign.sign_contract_final"),
         conditions |-> <<>>,
         required_actor_types |-> {"human"},
         required_signer |-> "human",
         approval_chain |-> <<"human">>]
     >>]

\* The policies an engine is built over, and GovernancePolicy.policy_hash:
\* sha256_hex(self.model_dump()), one digest per policy content.
KnownPolicies == <<DEFAULT_GOVERNANCE_POLICY>>

policy_hash(policy) == <<"sha256-policy", PlaceOf(KnownPolicies, policy)>>

\* Sum of int(qty) * int(unit_cost) over the raw (not yet validated) items.
RECURSIVE ProcurementTotal(_)
ProcurementTotal(items) ==
    IF items = <<>> THEN 0
    ELSE Get(Head(items), "qty", 0) * Get(Head(items), "unit_cost", 0)
         + ProcurementTotal(Tail(items))

\* Mutant: the procurement total is never derived.
_derive_values_no_total(action, payload) ==
    [procurement_total_cents |-> None,
     amount_cents |->
        IF "amount" \in DOMAIN payload THEN Some(payload["amount"]) ELSE None]

_derive_values(action, payload) ==
    [procurement_total_cents |->
        IF action = Action("event", "ProcurementOrdered")
        THEN Some(ProcurementTotal(Get(payload, "items", <<>>)))
        ELSE None,
     amount_cents |->
        IF "amount" \in DOMAIN payload THEN Some(payload["amount"]) ELSE None]

\* The dotted paths rules are written over; a missing path is None.
_get_path(context, path) ==
    CASE path = "derived.procurement_total_cents" -> context.derived.procurement_total_cents
      [] path = "derived.amount_cents" -> context.derived.amount_cents
      [] path = "payload.amount" ->
            IF "amount" \in DOMAIN context.payload THEN Some(context.payload["amount"]) ELSE None
      [] path = "actor_type" -> Some(context.actor_type)
      [] path = "signer_role" -> Some(context.signer_role)
      [] OTHER -> None

_matches(condition, context) ==
    LET left == _get_path(context, condition.field)
        right == condition.value
    IN  CASE condition.op = "exists" -> left # None
          [] condition.op = "eq" -> left = Some(right)
          [] condition.op = "ne" -> left # Some(right)
          [] condition.op = "gt" -> left # None /\ left[1] > right
          [] condition.op = "gte" -> left # None /\ left[1] >= right
          [] condition.op = "lt" -> left # None /\ left[1] < right
          [] condition.op = "lte" -> left # None /\ left[1] <= right
          [] condition.op = "in" -> left # None /\ left[1] \in right
          [] condition.op = "contains" -> left # None /\ right \in left[1]
          [] OTHER -> FALSE

GovernanceDecision(policy, allowed, action, matched_rule_id, reason) ==
    [allowed |-> allowed,
     policy_id |-> policy.policy_id,
     policy_version |-> policy.version,
     policy_hash |-> policy_hash(policy),
     action |-> action,
     matched_rule_id |-> matched_rule_id,
     reason |-> reason]

\* The loop of evaluate over policy.rules from index i on.
RECURSIVE EvaluateFrom(_, _, _, _, _, _)
EvaluateFrom(policy, i, action, actor_type, signer_role, context) ==
    IF i > Len(policy.rules)
    THEN GovernanceDecision(policy, TRUE, action, None,
                            <<"allowed by default (no matched rule)">>)
    ELSE
      LET rule == policy.rules[i]
          effective_approvals == SeqToSet(context.approvals)
          missing_approvals ==
              SelectSeq(rule.approval_chain, LAMBDA x : x \notin effective_approvals)
      IN  IF rule.action # action
          THEN EvaluateFrom(policy, i + 1, action, actor_type, signer_role, context)
          ELSE IF rule.conditions # <<>>
                  /\ ~(\A c \in 1..Len(rule.conditions) : _matches(rule.conditions[c], context))
          THEN EvaluateFrom(policy, i + 1, action, actor_type, signer_role, context)
          ELSE IF rule.required_actor_types # {} /\ actor_type \notin rule.required_actor_types
          THEN GovernanceDecision(policy, FALSE, action, Some(rule.rule_id),
                                  <<"actor_type not allowed by rule", actor_type, rule.rule_id>>)
          ELSE IF rule.required_signer # "any" /\ signer_role # rule.required_signer
          THEN GovernanceDecision(policy, FALSE, action, Some(rule.rule_id),
                                  <<"signer_role must be", signer_role, rule.required_signer>>)
          ELSE IF missing_approvals # <<>>
          THEN GovernanceDecision(policy, FALSE, action, Some(rule.rule_id),
                                  <<"missing approvals", missing_approvals>>)
          ELSE GovernanceDecision(policy, TRUE, action, Some(rule.rule_id),
                                  <<"allowed by matched rule">>)

\* effective approvals: the provided ones, the signer role, the actor type if role-like.
EffectiveApprovals(approvals, actor_type, signer_role) ==
    SeqToSet(approvals) \cup {signer_role}
        \cup (IF actor_type \in {"agent", "human", "auditor"} THEN {actor_type} ELSE {})

RECURSIVE SetToSeq(_)
SetToSeq(S) == IF S = {} THEN <<>> ELSE LET x == CHOOSE y \in S : TRUE
                                        IN  <<x>> \o SetToSeq(S \ {x})

\* Mutant: the approval chain is checked against the provided approvals only.
evaluate_provided_approvals_only(policy, action, actor_type, signer_role, payload, tool_trace, approvals) ==
    LET context == [action |-> action,
                    actor_type |-> actor_type,
                    signer_role |-> signer_role,
                    payload |-> payload,
                    tool_trace |-> tool_trace,
                    approvals |-> SetToSeq(SeqToSet(approvals)),
                    derived |-> _derive_values(action, payload)]
    IN  EvaluateFrom(policy, 1, action, actor_type, signer_role, context)

evaluate(policy, action, actor_type, signer_role, payload, tool_trace, approvals) ==
    LET context == [action |-> action,
                    actor_type |-> actor_type,
                    signer_role |-> signer_role,
                    payload |-> payload,
                    tool_trace |-> tool_trace,
                    approvals |-> SetToSeq(EffectiveApprovals(approvals, actor_type, signer_role)),
                    derived |-> _derive_values(action, payload)]
    IN  EvaluateFrom(policy, 1, action, actor_type, signer_role, context)

\* get_governance_engine(): a fresh engine over the default policy.
get_governance_engine == DEFAULT_GOVERNANCE_POLICY

(***************************************************************************)
(* src/app/ledger/events.py                                                *)
(***************************************************************************)
\* The payload model of each event kind: the fields without a default
\* (required) and the fields with one (optional, with the default).
PayloadSchema(event_type) ==
    CASE event_type = "ProcurementOrdered" ->
            [required |-> {"supplier_id", "items", "expected_date"},
             optional |-> [procurement_id |-> None]]
      [] event_type = "GoodsReceived" ->
            [required |-> {"procurement_id", "batch_id", "items", "qc_passed"},
             optional |-> EmptyDict]
      [] event_type = "OrderPlaced" ->
            [required |-> {"order_id", "customer_ref", "items", "channel"},
             optional |-> [region |-> None, store_id |-> None, time_slot |-> None,
                           promotion_id |-> None, promotion_phase |-> None]]
      [] event_type = "PaymentCaptured" ->
            [required |-> {"order_id", "amount", "method", "receipt_object_key", "receipt_hash"},
             optional |-> EmptyDict]
      [] event_type = "ShipmentDispatched" ->
            [required |-> {"order_id", "items", "carrier_ref"},
             optional |-> EmptyDict]
      [] event_type = "RefundIssued" ->
            [required |-> {"order_id", "amount", "receipt_hash"},
             optional |-> EmptyDict]
      [] event_type = "InventoryAdjusted" ->
            [required |-> {"reason", "items"},
             optional |-> EmptyDict]
      [] event_type = "DisclosurePublished" ->
            [required |-> {"disclosure_id", "policy_id", "period", "metrics", "merkle_root",
                           "anchor_ref", "statement_sig_hash"},
             optional |-> EmptyDict]
      [] event_type = "SelectiveDisclosureRevealed" ->
            [required |-> {"disclosure_id", "metric_key", "group", "revealed_event_hashes",
                           "challenge_subject"},
             optional |-> EmptyDict]
      [] event_type = "OrchestratorStateChanged" ->
            [required |-> {"run_id", "workflow_name", "to_state"},
             optional |-> [from_state |-> None, reason |-> None]]
      [] event_type = "ToolInvocationLogged" ->
            [required |-> {"run_id", "task_id", "connector", "action", "status", "attempt",
                           "timeout_seconds", "max_retries", "request_hash"},
             optional |-> [response_hash |-> None, error |-> None, governance |-> EmptyDict,
                           amount_cents |-> None, supplier_id |-> None,
                           settlement_procurement_id |-> None, purpose |-> None]]
      [] event_type = "DemoScenarioInitialized" ->
            [required |-> {"scenario_id", "scenario_version", "seeded_at"},
             optional |-> [key_event_ids |-> <<>>, result |-> EmptyDict]]
      [] event_type = "SupplierContractSigned" ->
            [required |-> {"contract_id", "supplier_id", "signed_by", "effective_date", "terms_hash"},
             optional |-> EmptyDict]
      [] event_type = "PolicyUpdated" ->
            [required |-> {"policy_domain", "previous_version", "new_version", "policy_hash", "reason"},
             optional |-> EmptyDict]
      [] event_type = "ComplaintLogged" ->
            [required |-> {"complaint_id", "customer_ref", "topic", "severity", "summary"},
             optional |-> [order_id |-> None]]
      [] event_type = "CustomerConflictReported" ->
            [required |-> {"conflict_id", "customer_ref", "employee_ref", "severity", "resolution"},
             optional |-> [order_id |-> None, privacy_tags |-> <<>>]]
      [] event_type = "CompanyCompensationIssued" ->
            [required |-> {"conflict_id", "amount", "reason", "receipt_hash"},
             optional |-> [order_id |-> None]]
      [] event_type = "SkillRunStarted" ->
            [required |-> {"run_id", "skill_name", "entrypoint", "actor_id", "inputs_hash", "sop_hash"},
             optional |-> [outputs_hash |-> "", permissions |-> <<>>, receipt_hash |-> None]]
      [] event_type = "SkillRunFinished" ->
            [required |-> {"run_id", "skill_name", "entrypoint", "actor_id", "inputs_hash",
                           "outputs_hash"},
             optional |-> [receipt_hash |-> None]]
      [] event_type = "SkillRunFailed" ->
            [required |-> {"run_id", "skill_name", "entrypoint", "actor_id", "inputs_hash", "error"},
             optional |-> [outputs_hash |-> ""]]

PAYLOAD_MODELS ==
    {"ProcurementOrdered", "GoodsReceived", "OrderPlaced", "PaymentCaptured",
     "ShipmentDispatched", "RefundIssued", "InventoryAdjusted", "DisclosurePublished",
     "SelectiveDisclosureRevealed", "OrchestratorStateChanged", "ToolInvocationLogged",
     "DemoScenarioInitialized", "SupplierContractSigned", "PolicyUpdated", "ComplaintLogged",
     "CustomerConflictReported", "CompanyCompensationIssued", "SkillRunStarted",
     "SkillRunFinished", "SkillRunFailed"}

\* The item model of the event kinds whose payload has an items list.
ItemSchema(event_type) ==
    CASE event_type = "ProcurementOrdered" ->      \* ItemCostModel
            [required |-> {"sku", "qty", "unit_cost"}, optional |-> EmptyDict]
      [] event_type = "GoodsReceived" ->           \* ItemReceivedModel
            [required |-> {"sku", "qty", "expiry_date"}, optional |-> [unit_cost |-> None]]
      [] event_type = "OrderPlaced" ->             \* OrderItemModel
            [required |-> {"sku", "qty", "unit_price"}, optional |-> EmptyDict]
      [] event_type = "ShipmentDispatched" ->      \* ShipmentItemModel
            [required |-> {"sku", "qty"}, optional |-> EmptyDict]
      [] event_type = "InventoryAdjusted" ->       \* InventoryAdjustItemModel
            [required |-> {"sku", "qty_delta"}, optional |-> [batch_id |-> None, unit_cost |-> None]]

HasItems(event_type) ==
    event_type \in {"ProcurementOrdered", "GoodsReceived", "OrderPlaced",
                    "ShipmentDispatched", "InventoryAdjusted"}

\* Field(gt=0) / Field(ge=0) of the item models.
ItemValid(event_type, item) ==
    /\ ItemSchema(event_type).required \subseteq DOMAIN item
    /\ "qty" \in DOMAIN item => item["qty"] > 0
    /\ ("unit_cost" \in DOMAIN item /\ event_type = "ProcurementOrdered") => item["unit_cost"] >= 0
    /\ ("unit_cost" \in DOMAIN item /\ event_type \in {"GoodsReceived", "InventoryAdjusted"})
          => (item["unit_cost"] = None \/ item["unit_cost"][1] >= 0)
    /\ "unit_price" \in DOMAIN item => item["unit_price"] >= 0

\* model_validate of a payload: required fields present, numeric constraints hold.
PayloadValid(event_type, payload) ==
    /\ PayloadSchema(event_type).required \subseteq DOMAIN payload
    /\ (event_type \in {"PaymentCaptured", "RefundIssued", "CompanyCompensationIssued"})
          => payload["amount"] >= 0
    /\ HasItems(event_type)
          => \A i \in 1..Len(payload["items"]) : ItemValid(event_type, payload["items"][i])

\* model_dump: exactly the model's fields, defaults filled in, extra keys dropped.
Dump(schema, value) ==
    [f \in schema.required \cup DOMAIN schema.optional |->
        IF f \in DOMAIN value THEN value[f] ELSE schema.optional[f]]

model_dump(event_type, payload) ==
    LET top == Dump(PayloadSchema(event_type), payload)
    IN  IF HasItems(event_type)
        THEN [top EXCEPT !["items"] =
                 [i \in 1..Len(payload["items"]) |->
                     Dump(ItemSchema(event_type), payload["items"][i])]]
        ELSE top

\* LedgerEvent(...) as built by EventCreateRequest.to_ledger_event: the
\* validators _known_type and _validate_payload raise (ok = FALSE) or the
\* event is built with event_id = uuid4(), the dumped payload, and
\* occurred_at = request.occurred_at or now.
to_ledger_event(request, prev_hash, event_id, now) ==
    IF request.event_type \notin PAYLOAD_MODELS
    THEN [ok |-> FALSE, detail |-> "unsupported_event_type"]
    ELSE IF ~PayloadValid(request.event_type, request.payload)
    THEN [ok |-> FALSE, detail |-> "invalid_payload"]
    ELSE [ok |-> TRUE,
          event_id |-> event_id,
          event_type |-> request.event_type,
          occurred_at |-> IF request.occurred_at = None THEN now
                          ELSE request.occurred_at[1],
          actor |-> request.actor,
          policy_id |-> request.policy_id,
          payload |-> model_dump(request.event_type, request.payload),
          tool_trace |-> request.tool_trace,
          prev_hash |-> prev_hash]

(***************************************************************************)
(* src/app/ledger/store.py                                                 *)
(***************************************************************************)
\* Mutant: the latest hash is never read.
_latest_event_hash_zero(rows) == ZeroHash

\* The latest row's event_hash by seq_id, or the zero hash.
_latest_event_hash(rows) ==
    IF rows = <<>> THEN ZeroHash ELSE rows[Len(rows)].event_hash

\* Mutant: the hash is taken before prev_hash is set.
_event_hash_input_unlinked(event) ==
    [event_id |-> event.event_id,
     event_type |-> event.event_type,
     occurred_at |-> event.occurred_at,
     actor |-> event.actor,
     policy_id |-> event.policy_id,
     payload |-> event.payload,
     tool_trace |-> event.tool_trace,
     prev_hash |-> ZeroHash,
     signature |-> event.signature]

_event_hash_input(event) ==
    [event_id |-> event.event_id,
     event_type |-> event.event_type,
     occurred_at |-> event.occurred_at,
     actor |-> event.actor,
     policy_id |-> event.policy_id,
     payload |-> event.payload,
     tool_trace |-> event.tool_trace,
     prev_hash |-> event.prev_hash,
     signature |-> event.signature]

\* The signed subview: the hashed fields minus the signature.
sign_payload(event) ==
    [event_id |-> event.event_id,
     event_type |-> event.event_type,
     occurred_at |-> event.occurred_at,
     actor |-> event.actor,
     policy_id |-> event.policy_id,
     payload |-> event.payload,
     tool_trace |-> event.tool_trace,
     prev_hash |-> event.prev_hash]

\* autoincrement primary key.
NextSeqId(rows) == IF rows = <<>> THEN 1 ELSE rows[Len(rows)].seq_id + 1

\* The governance decision is stored with the event.
WithGovernance(tool_trace, decision) == ("governance" :> decision) @@ tool_trace

\* Mutant: a row is handed to the session and flushed before the checks run.
Raised_after_add(error, detail) ==
    [status |-> "error", error |-> error, detail |-> detail,
     added |-> << [event_id |-> <<"uuid", 0>>,
                   event_type |-> "",
                   occurred_at |-> 0,
                   actor_type |-> "",
                   actor_id |-> "",
                   policy_id |-> "",
                   payload |-> EmptyDict,
                   tool_trace |-> EmptyDict,
                   prev_hash |-> ZeroHash,
                   event_hash |-> ZeroHash,
                   signature |-> <<"ed25519", "", canonical_json(EmptyDict)>>] >>]

\* What a call raises, with the rows it had handed to session.add by then.
Raised(error, detail) == [status |-> "error", error |-> error, detail |-> detail, added |-> <<>>]

\* LedgerStore.append up to its flush: either the error it raises or the row
\* it hands to session.add. prev_hash is what _latest_event_hash returned,
\* event_id the uuid4 drawn; seq_id is assigned by the database at the insert.
append(table, request, signer, prev_hash, event_id, now) ==
    IF ~assert_signer_matches_actor(request.actor.type, signer.key_id)
    THEN Raised("PolicyEnforcementError", "signer_mismatch")
    ELSE
      LET raw_approvals == Get(request.tool_trace, "approvals", <<>>)
          decision == evaluate(get_governance_engine,
                               Action("event", request.event_type),
                               request.actor.type, signer.key_id,
                               request.payload, request.tool_trace, raw_approvals)
      IN  IF ~decision.allowed
          THEN Raised("PolicyEnforcementError", "governance_denied")
          ELSE
            LET built == to_ledger_event(request, prev_hash, event_id, now)
            IN  IF ~built.ok
                THEN Raised("ValidationError", built.detail)
                ELSE
                  LET event == [built EXCEPT !.tool_trace = WithGovernance(built.tool_trace, decision)]
                      signature == sign_object(sign_payload(event), signer)
                      signed == [f \in (DOMAIN event) \cup {"signature"} |->
                                    IF f = "signature" THEN signature ELSE event[f]]
                      event_hash == sha256_hex(table, _event_hash_input(signed))
                  IN  [status |-> "ok", error |-> "", detail |-> "",
                       hash_input |-> _event_hash_input(signed),
                       added |-> << [event_id |-> signed.event_id,
                                     event_type |-> signed.event_type,
                                     occurred_at |-> signed.occurred_at,
                                     actor_type |-> signed.actor.type,
                                     actor_id |-> signed.actor.id,
                                     policy_id |-> signed.policy_id,
                                     payload |-> signed.payload,
                                     tool_trace |-> signed.tool_trace,
                                     prev_hash |-> signed.prev_hash,
                                     event_hash |-> event_hash,
                                     signature |-> signed.signature] >>]

\* The row as stored: the database adds the autoincrement seq_id.
Stored(row, seq_id) ==
    [f \in (DOMAIN row) \cup {"seq_id"} |-> IF f = "seq_id" THEN seq_id ELSE row[f]]

\* The hash verify_chain recomputes from a stored row's columns.
RowHashInput(row) ==
               [event_id |-> row.event_id,
                event_type |-> row.event_type,
                occurred_at |-> row.occurred_at,
                actor |-> [type |-> row.actor_type, id |-> row.actor_id],
                policy_id |-> row.policy_id,
                payload |-> row.payload,
                tool_trace |-> row.tool_trace,
                prev_hash |-> row.prev_hash,
                signature |-> row.signature]

RowHash(table, row) == sha256_hex(table, RowHashInput(row))

\* verify_chain: the loop over list_events() from index i with the running prev.
RECURSIVE VerifyFrom(_, _, _, _)
VerifyFrom(table, events, i, prev) ==
    IF i > Len(events) THEN TRUE
    ELSE IF events[i].prev_hash # prev THEN FALSE
    ELSE IF RowHash(table, events[i]) # events[i].event_hash THEN FALSE
    ELSE VerifyFrom(table, events, i + 1, events[i].event_hash)

verify_chain(table, events) == VerifyFrom(table, events, 1, ZeroHash)

(***************************************************************************)
(* src/app/demo/default_scenario.py                                        *)
(***************************************************************************)
\* _verify_event_signature(row): the signed subview is rebuilt from the
\* row's columns and verified under the key of the role of row.actor_type.
RowSignPayload(row) ==
    [event_id |-> row.event_id,
     event_type |-> row.event_type,
     occurred_at |-> row.occurred_at,
     actor |-> [type |-> row.actor_type, id |-> row.actor_id],
     policy_id |-> row.policy_id,
     payload |-> row.payload,
     tool_trace |-> row.tool_trace,
     prev_hash |-> row.prev_hash]

_verify_event_signature(row) ==
    LET sign_view == RowSignPayload(row)
        pub == public_key_b64(load_role_key(expected_signer_role(row.actor_type)))
    IN  verify_object(sign_view, row.signature, pub)

(***************************************************************************)
(* src/app/persistence/models.py, src/app/persistence/pg.py                *)
(* The session: autoflush is off, so objects added to the session reach    *)
(* the database (and its unique constraints) only at a flush.              *)
(***************************************************************************)
LotKey(lot) == <<lot.sku, lot.batch_id>>

NoDuplicates(s) == \A i, j \in 1..Len(s) : s[i] = s[j] => i = j

OrderKeys(objs) == [i \in 1..Len(objs) |-> objs[i].order_id]

LotKeys(objs) == [i \in 1..Len(objs) |-> LotKey(objs[i])]

\* Database constraints a flush of the pending objects must pass:
\* orders_view.order_id is the primary key, uq_inventory_sku_batch is unique.
CanFlush(ov, iv, no, nl) ==
    /\ NoDuplicates(OrderKeys(no))
    /\ SeqToSet(OrderKeys(no)) \cap DOMAIN ov = {}
    /\ NoDuplicates(LotKeys(nl))
    /\ SeqToSet(LotKeys(nl)) \cap DOMAIN iv = {}

FlushOrders(ov, no) ==
    [k \in (DOMAIN ov) \cup SeqToSet(OrderKeys(no)) |->
        IF k \in DOMAIN ov THEN ov[k]
        ELSE no[CHOOSE i \in 1..Len(no) : no[i].order_id = k]]

FlushLots(iv, nl) ==
    [k \in (DOMAIN iv) \cup SeqToSet(LotKeys(nl)) |->
        IF k \in DOMAIN iv THEN iv[k]
        ELSE nl[CHOOSE i \in 1..Len(nl) : LotKey(nl[i]) = k]]

\* ledger_events.event_id is unique.
EventIdFree(rows, event_id) == \A i \in 1..Len(rows) : rows[i].event_id # event_id

\* The flush of pending token rows (token_id is a fresh uuid4: no conflict) and
\* of pending audit rows (the autoincrement id is the row's place).
FlushTokens(tokens, added) ==
    [k \in (DOMAIN tokens) \cup {added[i].token_id : i \in 1..Len(added)} |->
        IF k \in DOMAIN tokens THEN tokens[k]
        ELSE added[CHOOSE i \in 1..Len(added) : added[i].token_id = k]]

Outcome(op, status, error, detail) ==
    [op |-> op, status |-> status, error |-> error, detail |-> detail]

(***************************************************************************)
(* src/app/domain/orders/projections.py,                                   *)
(* src/app/domain/inventory/projections.py, src/app/domain/projections.py  *)
(* A session is the record of what it holds: orders_view and               *)
(* inventory_view are the rows as the transaction sees them (the           *)
(* persistent objects), new_orders and new_lots the objects added and not  *)
(* yet flushed, which no SELECT and no bulk DELETE reaches; error is the   *)
(* exception that ended the work, costs the shipment_costs map, acc the    *)
(* cost the event being applied has added up.                              *)
(***************************************************************************)
Session(ov, no, iv, nl) ==
    [orders_view |-> ov, new_orders |-> no, inventory_view |-> iv, new_lots |-> nl,
     error |-> "", costs |-> EmptyDict, acc |-> 0]

\* session.flush(): the pending objects are inserted, or IntegrityError.
FlushSession(s) ==
    IF CanFlush(s.orders_view, s.inventory_view, s.new_orders, s.new_lots)
    THEN [s EXCEPT !.orders_view = FlushOrders(s.orders_view, s.new_orders),
                   !.inventory_view = FlushLots(s.inventory_view, s.new_lots),
                   !.new_orders = <<>>,
                   !.new_lots = <<>>]
    ELSE [s EXCEPT !.error = "IntegrityError"]

\* The OrderViewModel that _upsert_order creates when the SELECT finds none.
NewOrder(order_id, occurred_at) ==
    [order_id |-> order_id, customer_ref |-> None, channel |-> None, region |-> None,
     status |-> "placed", order_total_cents |-> 0, paid_cents |-> 0,
     refunded_cents |-> 0, shipped_qty |-> 0, line_items |-> <<>>,
     updated_at |-> occurred_at]

\* What apply_order_event assigns to the order _upsert_order returned.
OrderAfter(order, event) ==
    LET payload == event.payload
        now == event.occurred_at
    IN  CASE event.event_type = "OrderPlaced" ->
               [order EXCEPT
                   !.customer_ref = Some(payload.customer_ref),
                   !.channel = Some(payload.channel),
                   !.region = payload.region,
                   !.line_items = payload.items,
                   !.order_total_cents =
                       SumSeq([k \in 1..Len(payload.items) |->
                                  payload.items[k].qty * payload.items[k].unit_price]),
                   !.status = "placed",
                   !.updated_at = now]
          [] event.event_type = "PaymentCaptured" ->
               [order EXCEPT
                   !.paid_cents = @ + payload.amount,
                   !.status = IF order.paid_cents + payload.amount > 0 THEN "paid" ELSE @,
                   !.updated_at = now]
          [] event.event_type = "ShipmentDispatched" ->
               [order EXCEPT
                   !.shipped_qty = @ + SumSeq([k \in 1..Len(payload.items) |->
                                                  payload.items[k].qty]),
                   !.status = "shipped",
                   !.updated_at = now]
          [] event.event_type = "RefundIssued" ->
               [order EXCEPT
                   !.refunded_cents = @ + payload.amount,
                   !.status = IF order.refunded_cents + payload.amount > 0
                              THEN "refunded" ELSE @,
                   !.updated_at = now]

\* apply_order_event with _upsert_order: flush, SELECT by order_id, add a new
\* object when there is no row, then the assignments.
apply_order_event(s, event) ==
    IF event.event_type \notin {"OrderPlaced", "PaymentCaptured", "ShipmentDispatched",
                                "RefundIssued"}
    THEN s
    ELSE LET f == FlushSession(s)
             order_id == event.payload.order_id
         IN  IF f.error # "" THEN f
             ELSE IF order_id \in DOMAIN f.orders_view
             THEN [f EXCEPT !.orders_view[order_id] = OrderAfter(@, event)]
             ELSE [f EXCEPT !.new_orders =
                               Append(@, OrderAfter(NewOrder(order_id, event.occurred_at),
                                                    event))]

\* The events applied in order; an exception ends the loop.
RECURSIVE ApplyOrderEvents(_, _, _)
ApplyOrderEvents(s, events, i) ==
    IF i > Len(events) \/ s.error # "" THEN s
    ELSE ApplyOrderEvents(apply_order_event(s, events[i]), events, i + 1)

\* rebuild_orders_view: the bulk DELETE empties the table and drops the
\* persistent objects; objects still pending stay in the session.
rebuild_orders_view(s, events) ==
    ApplyOrderEvents([s EXCEPT !.orders_view = EmptyDict], events, 1)

\* _procurement_unit_cost: the ProcurementOrdered rows from the latest back;
\* the first with this procurement_id that has an item of the sku decides.
RECURSIVE _procurement_unit_cost(_, _, _, _)
_procurement_unit_cost(rows, i, procurement_id, sku) ==
    IF i < 1 THEN 0
    ELSE LET payload == rows[i].payload
             found == IF rows[i].event_type = "ProcurementOrdered"
                         /\ payload.procurement_id = Some(procurement_id)
                      THEN {k \in 1..Len(payload.items) : payload.items[k].sku = sku}
                      ELSE {}
         IN  IF found # {}
             THEN payload.items[CHOOSE k \in found : \A m \in found : k <= m].unit_cost
             ELSE _procurement_unit_cost(rows, i - 1, procurement_id, sku)

\* _upsert_batch without the check of lines 59-60.
_upsert_batch_unchecked(s, sku, batch_id, qty_delta, expiry_date, unit_cost, occurred_at) ==
    LET key == <<sku, batch_id>>
        found == key \in DOMAIN s.inventory_view
        batch == IF found THEN s.inventory_view[key]
                 ELSE [sku |-> sku, batch_id |-> batch_id, qty_on_hand |-> 0,
                       expiry_date |-> expiry_date, unit_cost_cents |-> unit_cost,
                       updated_at |-> occurred_at]
        after == [batch EXCEPT
                     !.qty_on_hand = @ + qty_delta,
                     !.updated_at = occurred_at,
                     !.expiry_date = IF TruthyStr(expiry_date) THEN expiry_date ELSE @,
                     !.unit_cost_cents = IF unit_cost # 0 THEN unit_cost ELSE @]
    IN  IF found THEN [s EXCEPT !.inventory_view[key] = after]
        ELSE [s EXCEPT !.new_lots = Append(@, after)]

\* _upsert_batch: SELECT by (sku, batch_id), with no flush before it; a new
\* object is added when the table has no such row; then the assignments, and
\* ValueError when the quantity went negative.
_upsert_batch(s, sku, batch_id, qty_delta, expiry_date, unit_cost, occurred_at) ==
    LET key == <<sku, batch_id>>
        found == key \in DOMAIN s.inventory_view
        batch == IF found THEN s.inventory_view[key]
                 ELSE [sku |-> sku, batch_id |-> batch_id, qty_on_hand |-> 0,
                       expiry_date |-> expiry_date, unit_cost_cents |-> unit_cost,
                       updated_at |-> occurred_at]
        after == [batch EXCEPT
                     !.qty_on_hand = @ + qty_delta,
                     !.updated_at = occurred_at,
                     !.expiry_date = IF TruthyStr(expiry_date) THEN expiry_date ELSE @,
                     !.unit_cost_cents = IF unit_cost # 0 THEN unit_cost ELSE @]
        held_in == IF found THEN [s EXCEPT !.inventory_view[key] = after]
                   ELSE [s EXCEPT !.new_lots = Append(@, after)]
    IN  [held_in EXCEPT !.error = IF after.qty_on_hand < 0 THEN "ValueError" ELSE @]

\* ORDER BY over the strings the inputs use (dates, then batch ids).
StrRank(str) ==
    CASE str = "" -> 0
      [] str = "2026-01-15" -> 1
      [] str = "2026-01-20" -> 2
      [] str = "B1" -> 3
      [] str = "B2" -> 4
      [] str = "adjustment" -> 5

\* expiry_date ASC, batch_id ASC; PostgreSQL sorts NULL after every value.
LotBefore(a, b) ==
    LET ra == IF a.expiry_date = None THEN 5 ELSE StrRank(a.expiry_date[1])
        rb == IF b.expiry_date = None THEN 5 ELSE StrRank(b.expiry_date[1])
    IN  ra < rb \/ (ra = rb /\ StrRank(a.batch_id) < StrRank(b.batch_id))

\* FifoOrder with ORDER BY batch_id alone.
RECURSIVE FifoOrder_by_batch(_, _)
FifoOrder_by_batch(iv, keys) ==
    IF keys = {} THEN <<>>
    ELSE LET first == CHOOSE k \in keys :
                          \A o \in keys \ {k} : StrRank(k[2]) < StrRank(o[2])
         IN  <<first>> \o FifoOrder_by_batch(iv, keys \ {first})

RECURSIVE FifoOrder(_, _)
FifoOrder(iv, keys) ==
    IF keys = {} THEN <<>>
    ELSE LET first == CHOOSE k \in keys : \A o \in keys \ {k} : LotBefore(iv[k], iv[o])
         IN  <<first>> \o FifoOrder(iv, keys \ {first})

\* The loop of _consume_fifo over the selected rows.
RECURSIVE TakeFrom(_, _, _, _, _)
TakeFrom(s, keys, i, remaining, occurred_at) ==
    IF i > Len(keys) \/ remaining <= 0
    THEN [s EXCEPT !.error = IF remaining > 0 THEN "ValueError" ELSE @]
    ELSE LET row == s.inventory_view[keys[i]]
             take == IF row.qty_on_hand < remaining THEN row.qty_on_hand ELSE remaining
         IN  TakeFrom([s EXCEPT !.inventory_view[keys[i]].qty_on_hand = @ - take,
                                !.inventory_view[keys[i]].updated_at = occurred_at,
                                !.acc = @ + take * row.unit_cost_cents],
                      keys, i + 1, remaining - take, occurred_at)

\* _consume_fifo: flush, SELECT the sku's lots with stock in FIFO order, take.
_consume_fifo(s, sku, qty, occurred_at) ==
    LET f == FlushSession(s)
        keys == {k \in DOMAIN f.inventory_view :
                    k[1] = sku /\ f.inventory_view[k].qty_on_hand > 0}
    IN  IF f.error # "" THEN f
        ELSE TakeFrom(f, FifoOrder(f.inventory_view, keys), 1, qty, occurred_at)

RECURSIVE consume_inventory_for_shipment(_, _, _, _)
consume_inventory_for_shipment(s, shipment_items, i, occurred_at) ==
    IF i > Len(shipment_items) \/ s.error # "" THEN s
    ELSE consume_inventory_for_shipment(
             _consume_fifo(s, shipment_items[i].sku, shipment_items[i].qty, occurred_at),
             shipment_items, i + 1, occurred_at)

\* The item loops of apply_inventory_event.
RECURSIVE ReceiveItems(_, _, _, _)
ReceiveItems(s, rows, event, i) ==
    IF i > Len(event.payload.items) \/ s.error # "" THEN s
    ELSE LET item == event.payload.items[i]
             unit_cost == IF TruthyInt(item.unit_cost) THEN item.unit_cost[1]
                          ELSE _procurement_unit_cost(rows, Len(rows),
                                                      event.payload.procurement_id, item.sku)
         IN  ReceiveItems(_upsert_batch(s, item.sku, event.payload.batch_id, item.qty,
                                        Some(item.expiry_date), unit_cost, event.occurred_at),
                          rows, event, i + 1)

RECURSIVE AdjustItems(_, _, _)
AdjustItems(s, event, i) ==
    IF i > Len(event.payload.items) \/ s.error # "" THEN s
    ELSE LET item == event.payload.items[i]
             batch_id == IF TruthyStr(item.batch_id) THEN item.batch_id[1] ELSE "adjustment"
         IN  AdjustItems(_upsert_batch(s, item.sku, batch_id, item.qty_delta, None, 0,
                                       event.occurred_at),
                         event, i + 1)

\* apply_inventory_event; the cost it returns is left in acc.
apply_inventory_event(s, rows, event) ==
    LET s0 == [s EXCEPT !.acc = 0]
    IN  CASE event.event_type = "GoodsReceived" ->
               IF ~event.payload.qc_passed THEN s0 ELSE ReceiveItems(s0, rows, event, 1)
          [] event.event_type = "ShipmentDispatched" ->
               consume_inventory_for_shipment(s0, event.payload.items, 1, event.occurred_at)
          [] event.event_type = "InventoryAdjusted" -> AdjustItems(s0, event, 1)
          [] OTHER -> s0

RECURSIVE ApplyInventoryEvents(_, _, _, _)
ApplyInventoryEvents(s, rows, events, i) ==
    IF i > Len(events) \/ s.error # "" THEN s
    ELSE LET applied == apply_inventory_event(s, rows, events[i])
             costed == IF applied.error = "" /\ events[i].event_type = "ShipmentDispatched"
                       THEN [applied EXCEPT !.costs = (events[i].event_id :> applied.acc) @@ @]
                       ELSE applied
         IN  ApplyInventoryEvents(costed, rows, events, i + 1)

\* rebuild_inventory_view: bulk DELETE, then the events; rows is the ledger
\* table that _procurement_unit_cost reads.
rebuild_inventory_view(s, rows, events) ==
    ApplyInventoryEvents([s EXCEPT !.inventory_view = EmptyDict, !.costs = EmptyDict],
                         rows, events, 1)

\* rebuild_all_read_models(session): the events are the ledger by seq_id.
rebuild_all_read_models(s, rows) ==
    LET orders_done == rebuild_orders_view(s, rows)
    IN  IF orders_done.error # "" THEN orders_done
        ELSE rebuild_inventory_view(orders_done, rows, rows)

(***************************************************************************)
(* Inputs.                                                                 *)
(***************************************************************************)
ActorId(actor_type) ==
    CASE actor_type = "agent" -> "agent-001"
      [] actor_type = "human" -> "human-001"
      [] actor_type = "auditor" -> "auditor-001"
      [] actor_type = "system" -> "system-001"

EventCreateRequest(event_type, actor_type, payload, tool_trace, occurred_at) ==
    [event_type |-> event_type,
     actor |-> [type |-> actor_type, id |-> ActorId(actor_type)],
     policy_id |-> "policy_internal_v1",
     payload |-> payload,
     tool_trace |-> tool_trace,
     occurred_at |-> occurred_at]

ProcurementPayload(qty, unit_cost) ==
    [procurement_id |-> Some("P1"),
     supplier_id |-> "S1",
     items |-> << [sku |-> "tomato", qty |-> qty, unit_cost |-> unit_cost] >>,
     expected_date |-> "2026-01-11"]

PaymentPayload(order_id, amount) ==
    [order_id |-> order_id, amount |-> amount, method |-> "card",
     receipt_object_key |-> "r1", receipt_hash |-> "h1"]

\* uuid4(): a value no stored event has, or (with negligible probability)
\* one that a stored event already has. Fresh values are taken in order.
Uuid(n) == <<"uuid", n>>

FreshUuid(rows) ==
    Uuid(CHOOSE n \in 1..(Len(rows) + 1) :
            /\ \A i \in 1..Len(rows) : rows[i].event_id # Uuid(n)
            /\ \A m \in 1..(n - 1) : \E i \in 1..Len(rows) : rows[i].event_id = Uuid(m))

UuidChoices(rows) == {FreshUuid(rows)} \cup {rows[i].event_id : i \in 1..Len(rows)}

\* datetime.now(timezone.utc), read when a request carries no occurred_at.
Clock == {1}

\* Requests exercising the ledger contract: every actor type, procurement at
\* and above the governance threshold, schema-invalid payloads, an unknown kind.
LedgerRequests ==
    {EventCreateRequest("ProcurementOrdered", "agent", ProcurementPayload(1000, 500), EmptyDict, Some(1))}
    \cup {EventCreateRequest("ProcurementOrdered", a, ProcurementPayload(1000, 501), EmptyDict, Some(1))
        : a \in ActorTypes}
    \cup {EventCreateRequest("ProcurementOrdered", "agent", ProcurementPayload(1000, 501),
                             [approvals |-> <<"human">>], Some(1)),
          EventCreateRequest("ProcurementOrdered", "human", ProcurementPayload(0, 501), EmptyDict, Some(1)),
          EventCreateRequest("PaymentCaptured", "agent", PaymentPayload("O1", 0 - 1), EmptyDict, Some(1)),
          EventCreateRequest("PaymentCaptured", "agent", [order_id |-> "O1"], EmptyDict, Some(1)),
          EventCreateRequest("Bogus", "agent", PaymentPayload("O1", 5000), EmptyDict, Some(1))}
    \cup {EventCreateRequest("PaymentCaptured", a, PaymentPayload("O1", 5000), EmptyDict, None)
        : a \in {"system", "auditor"}}

\* Every caller obtains its signer from load_role_key.
Signers == {load_role_key(role) : role \in Roles}

(***************************************************************************)
(* State machine of one session over the database.                         *)
(***************************************************************************)
ConcIdle == <<pc, held, uncommitted>>

\* The selective-reveal tables and the clock, for the steps that leave them.
RevealIdle == <<reveal_tokens, new_tokens, reveal_audit, new_audit, clock>>

\* The disclosure tables, the anchor store and the orchestrator run.
DisclosureIdle ==
    <<disclosure_runs, disclosure_metrics, disclosure_grouped_metrics, anchor_records,
      committed_disclosure, publish, immudb, today, orchestrator, skill>>

\* The in-memory aggregate, the Merkle tree under verification, the
\* commitments under construction, and the disclosure side.
MemoryIdle == <<aggregate, merkle, commitments, DisclosureIdle>>

\* No rebuild of the read models is in progress.
NotReplaying == [phase |-> "idle", at |-> 0, costs |-> EmptyDict]

\* No disclosure was computed yet.
NoCommitmentResult ==
    [root_summary |-> <<"sha256", "">>, root_details |-> <<>>, leaf_payloads |-> <<>>,
     proof_index |-> EmptyDict, detail_index |-> EmptyDict]

NoCommitments ==
    [op |-> "none", error |-> "", policy_id |-> "", period |-> [start |-> 0, end |-> 0],
     group_by |-> <<>>, metrics |-> <<>>, grouped_metrics |-> <<>>,
     first |-> NoCommitmentResult, metrics_again |-> <<>>, grouped_again |-> <<>>,
     second |-> NoCommitmentResult]

\* No publish request is in progress; drawn counts the disclosure ids drawn.
NoPublish ==
    [pc |-> "idle", policy_id |-> "",
     period |-> [start |-> 0, end |-> 0], group_by |-> <<>>, anchor_strict |-> TRUE,
     metrics |-> <<>>, grouped_metrics |-> <<>>, commitments |-> NoCommitmentResult,
     disclosure_id |-> "", anchor_ref |-> EmptyDict, failed_write |-> 0,
     error |-> "", detail |-> "", drawn |-> 0, aborted |-> {}, reconciliation |-> <<>>]

\* No orchestrator run was started.
NoOrchestratorRun ==
    [pc |-> "idle", tasks |-> <<>>, max_concurrency |-> 0, max_workers |-> 0,
     futures |-> <<>>, waited |-> 0,
     elapsed |-> 0, results |-> <<>>, current_state |-> <<>>, events |-> <<>>,
     with_disclosure |-> FALSE, disclosure |-> "", status |-> ""]

\* No skill run was started; drawn counts the run ids drawn.
NoSkillRun ==
    [pc |-> "idle", run_id |-> "", skill_name |-> "", entrypoint |-> "", actor_type |-> "",
     query |-> "", inputs_hash |-> <<>>, output |-> <<>>, error |-> "", raised |-> "",
     drawn |-> 0]

\* No run was published and nothing anchored.
NoDisclosures ==
    [disclosure_runs |-> EmptyDict, disclosure_metrics |-> <<>>,
     disclosure_grouped_metrics |-> <<>>, anchor_records |-> EmptyDict]

\* What Init says of the state outside the ledger session.
InitElsewhere ==
    /\ replay = NotReplaying
    /\ aggregate = EmptyDict
    /\ reveal_tokens = EmptyDict
    /\ new_tokens = <<>>
    /\ reveal_audit = <<>>
    /\ new_audit = <<>>
    /\ clock = 0
    /\ merkle = <<>>
    /\ commitments = NoCommitments
    /\ disclosure_runs = EmptyDict
    /\ disclosure_metrics = <<>>
    /\ disclosure_grouped_metrics = <<>>
    /\ anchor_records = EmptyDict
    /\ immudb = EmptyDict
    /\ committed_disclosure = NoDisclosures
    /\ publish = NoPublish
    /\ orchestrator = NoOrchestratorRun
    /\ skill = NoSkillRun

\* The database as this session sees it, with the digests its rows use
\* (digests of rows a rollback discards are referenced by nothing).
Database ==
    [ledger |-> ledger, orders_view |-> orders_view, inventory_view |-> inventory_view,
     hashed |-> hashed, reveal_tokens |-> reveal_tokens, reveal_audit |-> reveal_audit]

\* The empty database and a session that did nothing yet.
InitLedger ==
    /\ ledger = <<>>
    /\ orders_view = EmptyDict
    /\ inventory_view = EmptyDict
    /\ new_orders = <<>>
    /\ new_lots = <<>>
    /\ committed = [ledger |-> <<>>, orders_view |-> EmptyDict, inventory_view |-> EmptyDict,
                    hashed |-> <<>>, reveal_tokens |-> EmptyDict, reveal_audit |-> <<>>]
    /\ failed = FALSE
    /\ result = Outcome("init", "ok", "", "")
    /\ hashed = <<>>
    /\ pc = EmptyDict
    /\ held = EmptyDict
    /\ uncommitted = EmptyDict

Init ==
    /\ InitLedger
    /\ InitElsewhere
    /\ today = 2

\* The rows a call added, inserted at a flush with their autoincrement seq_id.
RECURSIVE Inserted(_, _)
Inserted(rows, added) ==
    IF added = <<>> THEN rows
    ELSE Inserted(Append(rows, Stored(Head(added), NextSeqId(rows))), Tail(added))

\* LedgerStore.append(request, signer), with the session.flush() that ends it:
\* the flush writes the new row and whatever else is pending in the session.
StoreAppend(request, signer, event_id, now) ==
    /\ ~failed
    /\ LET out == append(hashed, request, signer, _latest_event_hash(ledger), event_id, now)
       IN  IF out.status = "error"
           THEN /\ result' = Outcome("append", "error", out.error, out.detail)
                /\ ledger' = Inserted(ledger, out.added)
                /\ UNCHANGED <<orders_view, inventory_view, new_orders, new_lots,
                               failed, hashed, reveal_tokens, new_tokens, reveal_audit,
                               new_audit>>
           ELSE IF ~EventIdFree(ledger, event_id)
                   \/ ~CanFlush(orders_view, inventory_view, new_orders, new_lots)
           THEN /\ result' = Outcome("append", "error", "IntegrityError", "flush")
                /\ failed' = TRUE
                /\ UNCHANGED <<ledger, orders_view, inventory_view, new_orders, new_lots,
                               hashed, reveal_tokens, new_tokens, reveal_audit, new_audit>>
           ELSE /\ ledger' = Inserted(ledger, out.added)
                /\ hashed' = Hashed(hashed, out.hash_input)
                /\ orders_view' = FlushOrders(orders_view, new_orders)
                /\ inventory_view' = FlushLots(inventory_view, new_lots)
                /\ new_orders' = <<>>
                /\ new_lots' = <<>>
                /\ reveal_tokens' = FlushTokens(reveal_tokens, new_tokens)
                /\ new_tokens' = <<>>
                /\ reveal_audit' = reveal_audit \o new_audit
                /\ new_audit' = <<>>
                /\ result' = Outcome("append", "ok", "", "")
                /\ UNCHANGED failed
    /\ UNCHANGED <<committed, ConcIdle, clock, replay, MemoryIdle>>

\* The uuid4 is drawn in to_ledger_event, after the signer and governance
\* checks: a call they reject draws none.
DrawsUuid(request, signer) ==
    append(hashed, request, signer, ZeroHash, Uuid(0), 1).detail
        \notin {"signer_mismatch", "governance_denied"}

\* session_scope leaving its block normally: commit, or rollback when the
\* commit's flush raises.
SessionCommit ==
    /\ ~failed
    /\ replay = NotReplaying
    /\ committed # Database \/ new_orders # <<>> \/ new_lots # <<>>
       \/ new_tokens # <<>> \/ new_audit # <<>>
    /\ IF CanFlush(orders_view, inventory_view, new_orders, new_lots)
       THEN /\ orders_view' = FlushOrders(orders_view, new_orders)
            /\ inventory_view' = FlushLots(inventory_view, new_lots)
            /\ reveal_tokens' = FlushTokens(reveal_tokens, new_tokens)
            /\ reveal_audit' = reveal_audit \o new_audit
            /\ committed' = [ledger |-> ledger, orders_view |-> orders_view',
                             inventory_view |-> inventory_view', hashed |-> hashed,
                             reveal_tokens |-> reveal_tokens',
                             reveal_audit |-> reveal_audit']
            /\ result' = Outcome("commit", "ok", "", "")
            /\ UNCHANGED ledger
            /\ UNCHANGED hashed
       ELSE /\ ledger' = committed.ledger
            /\ orders_view' = committed.orders_view
            /\ inventory_view' = committed.inventory_view
            /\ reveal_tokens' = committed.reveal_tokens
            /\ reveal_audit' = committed.reveal_audit
            /\ result' = Outcome("commit", "error", "IntegrityError", "flush")
            /\ hashed' = committed.hashed
            /\ UNCHANGED committed
    /\ new_orders' = <<>>
    /\ new_lots' = <<>>
    /\ new_tokens' = <<>>
    /\ new_audit' = <<>>
    /\ UNCHANGED <<failed, ConcIdle, clock, replay, MemoryIdle>>

\* session_scope leaving its block on an exception: rollback.
SessionRollback ==
    /\ failed \/ result.status = "error"
    /\ ledger' = committed.ledger
    /\ orders_view' = committed.orders_view
    /\ inventory_view' = committed.inventory_view
    /\ new_orders' = <<>>
    /\ new_lots' = <<>>
    /\ failed' = FALSE
    /\ result' = Outcome("rollback", "ok", "", "")
    /\ hashed' = committed.hashed
    /\ reveal_tokens' = committed.reveal_tokens
    /\ reveal_audit' = committed.reveal_audit
    /\ new_tokens' = <<>>
    /\ new_audit' = <<>>
    /\ replay' = NotReplaying
    /\ UNCHANGED <<committed, ConcIdle, clock, MemoryIdle>>

AppendLedgerRequest ==
    /\ Len(ledger) < MaxEvents
    /\ \E request \in LedgerRequests, signer \in Signers, now \in Clock :
        \E event_id \in IF DrawsUuid(request, signer) THEN UuidChoices(ledger)
                         ELSE {FreshUuid(ledger)} :
            StoreAppend(request, signer, event_id, now)

Next ==
    \/ AppendLedgerRequest
    \/ SessionCommit
    \/ SessionRollback

Spec == Init /\ [][Next]_vars

(***************************************************************************)
(* The ledger contract, checked under Spec.                                *)
(***************************************************************************)
\* C1: after any sequence of append calls, accepted or rejected, the stored
\* events in seq_id order are linked: the first has the zero prev_hash and
\* every later one has the event_hash of the event just before it.
C1_ChainLinked ==
    \A i \in 1..Len(ledger) :
        /\ i > 1 => ledger[i - 1].seq_id < ledger[i].seq_id
        /\ ledger[i].prev_hash = IF i = 1 THEN ZeroHash ELSE ledger[i - 1].event_hash

C1_Witness ==
    /\ Len(ledger) >= 2
    /\ result.op = "append"
    /\ result.status = "ok"
    /\ ledger[2].prev_hash = ledger[1].event_hash
    /\ ledger[2].prev_hash # ZeroHash

\* C3: verify_chain() returns true in every state reached through append
\* calls alone, whatever accepted and rejected appends came before.
C3_VerifyChainHolds == verify_chain(hashed, ledger)

C3_Witness ==
    /\ Len(ledger) >= 2
    /\ result.op = "append"
    /\ result.status = "error"
    /\ verify_chain(hashed, ledger)

\* C5: every stored event's signature verifies over the signed subview
\* rebuilt from the stored fields, under the key of the role mapped from its
\* actor type; no stored event was signed with another role's key.
C5_SignedByActorRole ==
    \A i \in 1..Len(ledger) :
        /\ _verify_event_signature(ledger[i])
        /\ ledger[i].signature[2] = SigningSeed(expected_signer_role(ledger[i].actor_type))

C5_Witness ==
    /\ \E i \in 1..Len(ledger) :
          ledger[i].actor_type = "system" /\ _verify_event_signature(ledger[i])
    /\ \E i \in 1..Len(ledger) :
          ledger[i].actor_type = "auditor" /\ _verify_event_signature(ledger[i])

\* C6: an append rejected for its signer, by governance, for an unknown
\* event type or for a schema-invalid payload changes nothing: the stored
\* events and the latest event_hash are after the call what they were before.
C6_RejectedAppendChangesNothing ==
    [][(/\ result'.op = "append"
        /\ result'.detail \in {"signer_mismatch", "governance_denied",
                               "unsupported_event_type", "invalid_payload"})
       => /\ result'.status = "error"
          /\ ledger' = ledger
          /\ _latest_event_hash(ledger') = _latest_event_hash(ledger)
          /\ orders_view' = orders_view
          /\ inventory_view' = inventory_view]_vars

C6_Witness ==
    /\ Len(ledger) >= 1
    /\ result.op = "append"
    /\ result.error = "PolicyEnforcementError"
    /\ result.detail = "governance_denied"

\* C7: every stored event carries a governance decision that allowed it, and
\* a ProcurementOrdered whose sum of qty * unit_cost exceeds 500000 is stored
\* only with a human actor and the human signer.
C7_StoredEventsWereAllowed ==
    \A i \in 1..Len(ledger) :
        LET row == ledger[i]
        IN  /\ "governance" \in DOMAIN row.tool_trace
            /\ row.tool_trace["governance"].allowed
            /\ row.tool_trace["governance"].action = Action("event", row.event_type)
            /\ (/\ row.event_type = "ProcurementOrdered"
                /\ SumSeq([k \in 1..Len(row.payload.items) |->
                              row.payload.items[k].qty * row.payload.items[k].unit_cost])
                       > 500000)
               => /\ row.actor_type = "human"
                  /\ row.signature[2] = SigningSeed("human")

C7_Witness ==
    \E i \in 1..Len(ledger) :
        /\ ledger[i].event_type = "ProcurementOrdered"
        /\ ledger[i].payload.items[1].qty * ledger[i].payload.items[1].unit_cost > 500000
        /\ ledger[i].tool_trace["governance"].matched_rule_id = Some("procurement_gt_5000_human")
        /\ ledger[i].tool_trace["governance"].allowed

\* C9: event_id is unique across stored events, and the same logical event
\* (the same request: kind, actor, policy, payload, trace, time) is never
\* stored twice: a second append of it fails and leaves the ledger as it was.
C9_SameEventNotStoredTwice ==
    \A i, j \in 1..Len(ledger) :
        i # j =>
            /\ ledger[i].event_id # ledger[j].event_id
            /\ ~(/\ ledger[i].event_type = ledger[j].event_type
                 /\ ledger[i].actor_type = ledger[j].actor_type
                 /\ ledger[i].actor_id = ledger[j].actor_id
                 /\ ledger[i].policy_id = ledger[j].policy_id
                 /\ ledger[i].occurred_at = ledger[j].occurred_at
                 /\ ledger[i].payload = ledger[j].payload
                 /\ ledger[i].tool_trace = ledger[j].tool_trace)

(***************************************************************************)
(* GovernancePolicyEngine.evaluate over bounded calls (SpecGov).           *)
(***************************************************************************)
\* The tool actions connectors ask about ("tool:<connector>.<action>"), the
\* three the default policy has rules for among them, and event actions.
GovernanceActions ==
    {Action("tool", "unknown.connector_action"),
     Action("tool", "payment.capture"),
     Action("tool", "payment.bank_transfer"),
     Action("tool", "tax.submit_final"),
     Action("tool", "esign.sign_contract_final"),
     Action("event", "ProcurementOrdered"),
     Action("event", "PaymentCaptured")}

GovernancePayloads ==
    {EmptyDict,
     [items |-> << [sku |-> "tomato", qty |-> 1000, unit_cost |-> 500] >>],
     [items |-> << [sku |-> "tomato", qty |-> 1000, unit_cost |-> 501] >>],
     [amount |-> 5000]}

GovernanceApprovals == {<<>>, <<"human">>}

\* One call of get_governance_engine().evaluate(...); the decision is kept
\* with the call that asked for it.
GovernanceEvaluate(action, actor_type, signer_role, payload, approvals) ==
    /\ result' = [op |-> "evaluate",
                  call |-> [action |-> action, actor_type |-> actor_type,
                            signer_role |-> signer_role, payload |-> payload,
                            approvals |-> approvals],
                  decision |-> evaluate(get_governance_engine, action, actor_type,
                                        signer_role, payload, EmptyDict, approvals)]
    /\ UNCHANGED <<ledger, orders_view, inventory_view, new_orders, new_lots,
                   committed, failed, hashed, ConcIdle, RevealIdle, replay, MemoryIdle>>

EvaluateToolAction ==
    \E action \in {a \in GovernanceActions : a[1] = "tool"},
       actor_type \in ActorTypes, signer_role \in Roles,
       payload \in GovernancePayloads, approvals \in GovernanceApprovals :
        GovernanceEvaluate(action, actor_type, signer_role, payload, approvals)

EvaluateEventAction ==
    \E action \in {a \in GovernanceActions : a[1] = "event"},
       actor_type \in ActorTypes, signer_role \in Roles,
       payload \in GovernancePayloads, approvals \in GovernanceApprovals :
        GovernanceEvaluate(action, actor_type, signer_role, payload, approvals)

NextGov ==
    \/ EvaluateToolAction
    \/ EvaluateEventAction

SpecGov == Init /\ [][NextGov]_vars

\* C8: when no rule of the policy matches the action asked about, evaluate
\* denies an action tool:* with a reason saying "denied by default", and
\* allows an action event:*.
C8_DefaultDenyForTools ==
    (/\ result.op = "evaluate"
     /\ result.decision.matched_rule_id = None)
    => IF result.call.action[1] = "tool"
       THEN /\ ~result.decision.allowed
            /\ result.decision.reason[1] = "denied by default"
       ELSE result.decision.allowed

(***************************************************************************)
(* The ledger with stored rows changed out of band (SpecTamper).           *)
(***************************************************************************)
\* Rows i.. relinked to prev and their event_hash recomputed from the
\* stored fields, as whoever rewrites a row must do to keep the chain whole.
RECURSIVE Relinked(_, _, _, _)
Relinked(table, rows, i, prev) ==
    IF i > Len(rows) THEN [rows |-> rows, table |-> table]
    ELSE LET linked == [rows[i] EXCEPT !.prev_hash = prev]
             rehashed == [linked EXCEPT !.event_hash = RowHash(table, linked)]
         IN  Relinked(Hashed(table, RowHashInput(linked)),
                      [rows EXCEPT ![i] = rehashed], i + 1, rehashed.event_hash)

Intact ==
    /\ verify_chain(hashed, ledger)
    /\ \A i \in 1..Len(ledger) : _verify_event_signature(ledger[i])

\* A committed row's signature is replaced by one made with another role's
\* key; its event_hash and the later links are recomputed to match.
TamperSignature(i, role) ==
    /\ ~failed
    /\ committed = Database
    /\ Intact
    /\ role # expected_signer_role(ledger[i].actor_type)
    /\ LET forged == [ledger[i] EXCEPT
                         !.signature = sign_object(RowSignPayload(ledger[i]), load_role_key(role))]
           out == Relinked(hashed, [ledger EXCEPT ![i] = forged], i, ledger[i].prev_hash)
       IN  /\ ledger' = out.rows
           /\ hashed' = out.table
           /\ committed' = [committed EXCEPT !.ledger = out.rows, !.hashed = out.table]
    /\ result' = Outcome("tamper", "ok", "", "signature")
    /\ UNCHANGED <<orders_view, inventory_view, new_orders, new_lots, failed, ConcIdle,
                   RevealIdle, replay, MemoryIdle>>

\* A committed row's policy_id is overwritten and nothing is recomputed.
TamperField(i) ==
    /\ ~failed
    /\ committed = Database
    /\ Intact
    /\ ledger' = [ledger EXCEPT ![i].policy_id = "policy_overwritten"]
    /\ committed' = [committed EXCEPT !.ledger = ledger']
    /\ result' = Outcome("tamper", "ok", "", "policy_id")
    /\ UNCHANGED <<orders_view, inventory_view, new_orders, new_lots, failed, hashed,
                   ConcIdle, RevealIdle, replay, MemoryIdle>>

\* LedgerStore.verify_chain() over list_events().
VerifyChain ==
    /\ ~failed
    /\ result' = IF verify_chain(hashed, ledger)
                 THEN Outcome("verify_chain", "ok", "", "true")
                 ELSE Outcome("verify_chain", "ok", "", "false")
    /\ UNCHANGED <<ledger, orders_view, inventory_view, new_orders, new_lots,
                   committed, failed, hashed, ConcIdle, RevealIdle, replay, MemoryIdle>>

TamperStoredSignature ==
    \E i \in 1..Len(ledger), role \in Roles : TamperSignature(i, role)

TamperStoredField ==
    \E i \in 1..Len(ledger) : TamperField(i)

NextTamper ==
    \/ AppendLedgerRequest
    \/ SessionCommit
    \/ SessionRollback
    \/ TamperStoredSignature
    \/ TamperStoredField
    \/ VerifyChain

SpecTamper == Init /\ [][NextTamper]_vars

\* C4: verify_chain() returns true only if every stored event links to its
\* predecessor, has the event_hash recomputed from its stored fields, and has
\* a signature that verifies under the key of the role of its actor type; a
\* row whose signature was replaced by another key's makes it return false.
C4_VerifyChainChecksSignatures ==
    (result.op = "verify_chain" /\ result.detail = "true")
    => \A i \in 1..Len(ledger) :
             /\ ledger[i].prev_hash = IF i = 1 THEN ZeroHash ELSE ledger[i - 1].event_hash
             /\ ledger[i].event_hash = RowHash(hashed, ledger[i])
             /\ _verify_event_signature(ledger[i])

(***************************************************************************)
(* Two appenders, each on its own session and transaction (SpecConc).      *)
(* ledger holds the committed rows, uncommitted[a] the rows appender a has *)
(* flushed and not yet committed; a statement sees the committed rows and  *)
(* its own transaction's. The statements of append run one at a time, and  *)
(* nothing in append or _latest_event_hash takes a lock.                   *)
(***************************************************************************)
MaxConcEvents == 3

Appenders == {"A", "B"}

ConcRequests ==
    {EventCreateRequest("PaymentCaptured", "system", PaymentPayload("O1", 5000), EmptyDict, Some(1)),
     EventCreateRequest("ProcurementOrdered", "agent", ProcurementPayload(1000, 500), EmptyDict, Some(1)),
     EventCreateRequest("ProcurementOrdered", "agent", ProcurementPayload(1000, 501), EmptyDict, Some(1)),
     EventCreateRequest("PaymentCaptured", "agent", PaymentPayload("O1", 0 - 1), EmptyDict, Some(1))}

RECURSIVE Flattened(_)
Flattened(seqs) == IF seqs = <<>> THEN <<>> ELSE Head(seqs) \o Flattened(Tail(seqs))

\* order_by(seq_id)
BySeqId(rows) ==
    [k \in 1..Len(rows) |->
        rows[CHOOSE i \in 1..Len(rows) :
                Cardinality({j \in 1..Len(rows) : rows[j].seq_id < rows[i].seq_id}) = k - 1]]

AllRows == ledger \o Flattened([k \in 1..Cardinality(Appenders) |->
                                   uncommitted[SetToSeq(Appenders)[k]]])

\* What appender a's statements read.
Visible(a) == BySeqId(ledger \o uncommitted[a])

InitConc ==
    /\ ledger = <<>>
    /\ orders_view = EmptyDict
    /\ inventory_view = EmptyDict
    /\ new_orders = <<>>
    /\ new_lots = <<>>
    /\ committed = [ledger |-> <<>>, orders_view |-> EmptyDict, inventory_view |-> EmptyDict,
                    hashed |-> <<>>, reveal_tokens |-> EmptyDict, reveal_audit |-> <<>>]
    /\ failed = FALSE
    /\ result = Outcome("init", "ok", "", "")
    /\ hashed = <<>>
    /\ pc = [a \in Appenders |-> "idle"]
    /\ held = [a \in Appenders |-> None]
    /\ uncommitted = [a \in Appenders |-> <<>>]
    /\ InitElsewhere
    /\ today = 2

\* append, lines 54-75: the signer and governance checks, then the SELECT of
\* _latest_event_hash, whose result the call holds from here on.
ReadLatest(a, request, signer) ==
    /\ pc[a] = "idle"
    /\ Len(AllRows) + Cardinality({b \in Appenders : pc[b] = "read"}) < MaxConcEvents
    /\ LET prev_hash == _latest_event_hash(Visible(a))
           out == append(hashed, request, signer, prev_hash, FreshUuid(AllRows), 1)
       IN  IF out.detail \in {"signer_mismatch", "governance_denied"}
           THEN /\ result' = Outcome("append", "error", out.error, out.detail)
                /\ UNCHANGED <<pc, held>>
           ELSE /\ pc' = [pc EXCEPT ![a] = "read"]
                /\ held' = [held EXCEPT ![a] =
                               Some([request |-> request, signer |-> signer,
                                     prev_hash |-> prev_hash])]
                /\ result' = Outcome("append", "running", "", a)
    /\ UNCHANGED <<ledger, orders_view, inventory_view, new_orders, new_lots,
                   committed, failed, hashed, uncommitted, RevealIdle, replay, MemoryIdle>>

\* append, lines 76-110: the event is built over the prev_hash held, signed,
\* hashed, added and flushed (the INSERT, with the next seq_id).
InsertRow(a) ==
    /\ pc[a] = "read"
    /\ LET h == held[a][1]
           out == append(hashed, h.request, h.signer, h.prev_hash, FreshUuid(AllRows), 1)
       IN  IF out.status = "error"
           THEN /\ result' = Outcome("append", "error", out.error, out.detail)
                /\ UNCHANGED <<uncommitted, hashed>>
           ELSE /\ uncommitted' = [uncommitted EXCEPT ![a] =
                                      Append(@, Stored(out.added[1], NextSeqId(BySeqId(AllRows))))]
                /\ hashed' = Hashed(hashed, out.hash_input)
                /\ result' = Outcome("append", "ok", "", a)
    /\ pc' = [pc EXCEPT ![a] = "idle"]
    /\ held' = [held EXCEPT ![a] = None]
    /\ UNCHANGED <<ledger, orders_view, inventory_view, new_orders, new_lots,
                   committed, failed, RevealIdle, replay, MemoryIdle>>

\* session_scope leaving its block: the transaction's rows become visible.
CommitAppender(a) ==
    /\ pc[a] = "idle"
    /\ uncommitted[a] # <<>>
    /\ ledger' = BySeqId(ledger \o uncommitted[a])
    /\ uncommitted' = [uncommitted EXCEPT ![a] = <<>>]
    /\ result' = Outcome("commit", "ok", "", a)
    /\ UNCHANGED <<orders_view, inventory_view, new_orders, new_lots,
                   committed, failed, hashed, pc, held, RevealIdle, replay, MemoryIdle>>

AppenderReads ==
    \E a \in Appenders, request \in ConcRequests :
        ReadLatest(a, request, load_role_key(expected_signer_role(request.actor.type)))

AppenderInserts == \E a \in Appenders : InsertRow(a)

AppenderCommits == \E a \in Appenders : CommitAppender(a)

NextConc ==
    \/ AppenderReads
    \/ AppenderInserts
    \/ AppenderCommits

SpecConc == InitConc /\ [][NextConc]_vars

\* C2: with two appenders running append concurrently, reading the latest
\* event_hash and inserting the row are one atomic step: no two stored events
\* carry the same prev_hash, and the stored events stay linked.
C2_NoFork ==
    /\ \A i, j \in 1..Len(ledger) :
          i # j => ledger[i].prev_hash # ledger[j].prev_hash
    /\ \A i \in 1..Len(ledger) :
          ledger[i].prev_hash = IF i = 1 THEN ZeroHash ELSE ledger[i - 1].event_hash

(***************************************************************************)
(* Read models rebuilt within a session over the ledger (SpecProj).        *)
(***************************************************************************)
MaxProjEvents == 3

\* Rebuilds are followed while the session holds at most this many pending
\* objects (every rebuild in a session may add to them).
MaxPending == 1

GoodsReceivedPayload(batch_id, qty, expiry_date, unit_cost) ==
    [procurement_id |-> "P1", batch_id |-> batch_id,
     items |-> << [sku |-> "tomato", qty |-> qty, expiry_date |-> expiry_date,
                   unit_cost |-> unit_cost] >>,
     qc_passed |-> TRUE]

OrderPlacedPayload(order_id, qty, unit_price) ==
    [order_id |-> order_id, customer_ref |-> "C1",
     items |-> << [sku |-> "tomato", qty |-> qty, unit_price |-> unit_price] >>,
     channel |-> "online", region |-> Some("east")]

ShipmentPayload(order_id, qty) ==
    [order_id |-> order_id, items |-> << [sku |-> "tomato", qty |-> qty] >>,
     carrier_ref |-> "CARRIER"]

\* The events of the replay test, with a second lot that expires earlier.
ProjRequests ==
    {EventCreateRequest("GoodsReceived", "agent",
                        GoodsReceivedPayload("B1", 2, "2026-01-20", Some(200)), EmptyDict, Some(1)),
     EventCreateRequest("GoodsReceived", "agent",
                        GoodsReceivedPayload("B2", 1, "2026-01-15", Some(300)), EmptyDict, Some(1)),
     EventCreateRequest("OrderPlaced", "agent", OrderPlacedPayload("O1", 1, 500), EmptyDict, Some(1)),
     EventCreateRequest("PaymentCaptured", "agent", PaymentPayload("O1", 500), EmptyDict, Some(1)),
     EventCreateRequest("ShipmentDispatched", "agent", ShipmentPayload("O1", 2), EmptyDict, Some(1))}

AppendProjRequest ==
    /\ Len(ledger) < MaxProjEvents
    /\ \E request \in ProjRequests :
          StoreAppend(request, load_role_key("agent"), FreshUuid(ledger), 1)

\* rebuild_all_read_models(session) in the session as it stands; an
\* exception leaves session_scope's block, which can then only roll back.
RebuildReadModels ==
    /\ ~failed
    /\ Len(new_orders) + Len(new_lots) <= MaxPending
    /\ LET done == rebuild_all_read_models(
                       Session(orders_view, new_orders, inventory_view, new_lots), ledger)
       IN  /\ orders_view' = done.orders_view
           /\ new_orders' = done.new_orders
           /\ inventory_view' = done.inventory_view
           /\ new_lots' = done.new_lots
           /\ failed' = (done.error # "")
           /\ result' = [op |-> "rebuild",
                         status |-> IF done.error = "" THEN "ok" ELSE "error",
                         error |-> done.error, detail |-> "", costs |-> done.costs]
    /\ UNCHANGED <<ledger, committed, hashed, ConcIdle, RevealIdle, replay, MemoryIdle>>

NextProj ==
    \/ AppendProjRequest
    \/ RebuildReadModels
    \/ SessionCommit
    \/ SessionRollback

SpecProj == Init /\ [][NextProj]_vars

\* The read models a session holds, as its next flush writes them.
ReadModels(s) ==
    LET f == FlushSession(s)
    IN  [writable |-> f.error = "", orders |-> f.orders_view, lots |-> f.inventory_view]

\* C10: rebuild_all_read_models is idempotent and independent of what the
\* read models held before: after any rebuild, the order view, the inventory
\* lots and the per-shipment cost map are those of replaying the same events
\* from empty read models.
C10_RebuildEqualsReplayFromEmpty ==
    (result.op = "rebuild" /\ result.status = "ok")
    => LET fresh == rebuild_all_read_models(Session(EmptyDict, <<>>, EmptyDict, <<>>), ledger)
       IN  /\ fresh.error = ""
           /\ ReadModels(Session(orders_view, new_orders, inventory_view, new_lots))
                 = ReadModels(fresh)
           /\ result.costs = fresh.costs


(***************************************************************************)
(* rebuild_all_read_models followed event by event (SpecInv, SpecOrders):  *)
(* replay holds the phase of the rebuild in progress, the number of events *)
(* its loop has applied, and the shipment_costs map.                       *)
(***************************************************************************)
MaxInvEvents == 3

MaxOrderEvents == 3

InventoryAdjustedPayload(batch_id, qty_delta) ==
    [reason |-> "stocktake",
     items |-> << [sku |-> "tomato", qty_delta |-> qty_delta, batch_id |-> batch_id,
                   unit_cost |-> None] >>]

RefundPayload(order_id, amount) ==
    [order_id |-> order_id, amount |-> amount, receipt_hash |-> "RH"]

\* Two lots of one sku (the later received expires first), shipments below,
\* at and above the stock, and adjustments with and without a batch id.
InvRequests ==
    {EventCreateRequest("GoodsReceived", "agent",
                        GoodsReceivedPayload("B1", 100, "2026-01-20", Some(200)), EmptyDict, Some(1)),
     EventCreateRequest("GoodsReceived", "agent",
                        GoodsReceivedPayload("B2", 1, "2026-01-15", Some(300)), EmptyDict, Some(1)),
     EventCreateRequest("ShipmentDispatched", "agent", ShipmentPayload("O1", 10), EmptyDict, Some(1)),
     EventCreateRequest("ShipmentDispatched", "agent", ShipmentPayload("O1", 101), EmptyDict, Some(1)),
     EventCreateRequest("ShipmentDispatched", "agent", ShipmentPayload("O1", 102), EmptyDict, Some(1)),
     EventCreateRequest("InventoryAdjusted", "agent",
                        InventoryAdjustedPayload(Some("B1"), -101), EmptyDict, Some(1)),
     EventCreateRequest("InventoryAdjusted", "agent",
                        InventoryAdjustedPayload(None, 1), EmptyDict, Some(1))}

OrderRequests ==
    {EventCreateRequest("OrderPlaced", "agent", OrderPlacedPayload("O1", 1, 500), EmptyDict, Some(1)),
     EventCreateRequest("PaymentCaptured", "agent", PaymentPayload("O1", 500), EmptyDict, Some(1)),
     EventCreateRequest("PaymentCaptured", "agent", PaymentPayload("O1", 0), EmptyDict, Some(1)),
     EventCreateRequest("ShipmentDispatched", "agent", ShipmentPayload("O1", 1), EmptyDict, Some(1)),
     EventCreateRequest("RefundIssued", "agent", RefundPayload("O1", 500), EmptyDict, Some(1)),
     EventCreateRequest("GoodsReceived", "agent",
                        GoodsReceivedPayload("B1", 100, "2026-01-20", Some(200)), EmptyDict, Some(1))}

\* An append between two rebuilds (a rebuild is one synchronous call).
AppendInvRequest ==
    /\ replay = NotReplaying
    /\ Len(ledger) < MaxInvEvents
    /\ \E request \in InvRequests :
          StoreAppend(request, load_role_key("agent"), FreshUuid(ledger), 1)

AppendOrderRequest ==
    /\ replay = NotReplaying
    /\ Len(ledger) < MaxOrderEvents
    /\ \E request \in OrderRequests :
          StoreAppend(request, load_role_key("agent"), FreshUuid(ledger), 1)

ReplayOutcome(done) ==
    Outcome("replay", IF done.error = "" THEN "ok" ELSE "error", done.error, "")

\* rebuild_all_read_models entered: the events are loaded and
\* rebuild_orders_view issues its bulk DELETE.
BeginRebuild ==
    /\ ~failed
    /\ replay = NotReplaying
    /\ Len(new_orders) + Len(new_lots) <= MaxPending
    /\ orders_view' = EmptyDict
    /\ replay' = [phase |-> "orders", at |-> 0, costs |-> EmptyDict]
    /\ result' = Outcome("replay", "ok", "", "")
    /\ UNCHANGED <<ledger, inventory_view, new_orders, new_lots, committed, failed, hashed,
                   ConcIdle, RevealIdle, MemoryIdle>>

\* One turn of the loop of rebuild_orders_view.
ReplayOrderEvent ==
    /\ ~failed
    /\ replay.phase = "orders"
    /\ replay.at < Len(ledger)
    /\ LET done == apply_order_event(
                       Session(orders_view, new_orders, inventory_view, new_lots),
                       ledger[replay.at + 1])
       IN  /\ orders_view' = done.orders_view
           /\ new_orders' = done.new_orders
           /\ inventory_view' = done.inventory_view
           /\ new_lots' = done.new_lots
           /\ failed' = (done.error # "")
           /\ result' = ReplayOutcome(done)
    /\ replay' = [replay EXCEPT !.at = @ + 1]
    /\ UNCHANGED <<ledger, committed, hashed, ConcIdle, RevealIdle, MemoryIdle>>

\* rebuild_orders_view returned; rebuild_inventory_view issues its bulk DELETE.
BeginInventoryReplay ==
    /\ ~failed
    /\ replay.phase = "orders"
    /\ replay.at = Len(ledger)
    /\ inventory_view' = EmptyDict
    /\ replay' = [phase |-> "inventory", at |-> 0, costs |-> EmptyDict]
    /\ result' = Outcome("replay", "ok", "", "")
    /\ UNCHANGED <<ledger, orders_view, new_orders, new_lots, committed, failed, hashed,
                   ConcIdle, RevealIdle, MemoryIdle>>

\* One turn of the loop of rebuild_inventory_view.
ReplayInventoryEvent ==
    /\ ~failed
    /\ replay.phase = "inventory"
    /\ replay.at < Len(ledger)
    /\ LET event == ledger[replay.at + 1]
           done == apply_inventory_event(
                       Session(orders_view, new_orders, inventory_view, new_lots),
                       ledger, event)
       IN  /\ orders_view' = done.orders_view
           /\ new_orders' = done.new_orders
           /\ inventory_view' = done.inventory_view
           /\ new_lots' = done.new_lots
           /\ failed' = (done.error # "")
           /\ result' = ReplayOutcome(done)
           /\ replay' = [replay EXCEPT
                            !.at = @ + 1,
                            !.costs = IF done.error = ""
                                         /\ event.event_type = "ShipmentDispatched"
                                      THEN (event.event_id :> done.acc) @@ @
                                      ELSE @]
    /\ UNCHANGED <<ledger, committed, hashed, ConcIdle, RevealIdle, MemoryIdle>>

\* rebuild_all_read_models returns shipment_costs.
EndRebuild ==
    /\ ~failed
    /\ replay.phase = "inventory"
    /\ replay.at = Len(ledger)
    /\ result' = [op |-> "rebuild", status |-> "ok", error |-> "", detail |-> "",
                  costs |-> replay.costs]
    /\ replay' = NotReplaying
    /\ UNCHANGED <<ledger, orders_view, inventory_view, new_orders, new_lots, committed,
                   failed, hashed, ConcIdle, RevealIdle, MemoryIdle>>

RebuildSteps ==
    \/ BeginRebuild
    \/ ReplayOrderEvent
    \/ BeginInventoryReplay
    \/ ReplayInventoryEvent
    \/ EndRebuild

NextInv ==
    \/ AppendInvRequest
    \/ RebuildSteps
    \/ SessionCommit
    \/ SessionRollback

SpecInv == Init /\ [][NextInv]_vars

NextOrders ==
    \/ AppendOrderRequest
    \/ RebuildSteps
    \/ SessionCommit
    \/ SessionRollback

SpecOrders == Init /\ [][NextOrders]_vars


(***************************************************************************)
(* FIFO consumption and non-negative stock, checked under SpecInv.         *)
(***************************************************************************)
RECURSIVE SumOver(_, _)
SumOver(f, keys) ==
    IF keys = {} THEN 0
    ELSE LET k == CHOOSE x \in keys : TRUE
         IN  f[k] + SumOver(f, keys \ {k})

\* This step is a turn of rebuild_inventory_view's loop that returned.
InventoryEventReplayed ==
    /\ replay.phase = "inventory"
    /\ replay'.phase = "inventory"
    /\ replay'.at = replay.at + 1
    /\ ~failed'

\* C11: replaying a ShipmentDispatched event takes each shipped quantity from
\* the lots of its sku in (expiry_date, batch_id) ascending order, never from
\* a later lot while an earlier one keeps stock, touches no other lot, and
\* records under the event_id the sum of quantity taken times the lot's unit
\* cost.
C11_ShipmentConsumesFifo ==
    [][(InventoryEventReplayed /\ ledger[replay.at + 1].event_type = "ShipmentDispatched")
       => LET event == ledger[replay.at + 1]
              items == event.payload.items
              before == FlushLots(inventory_view, new_lots)
              after == inventory_view'
              skus == {items[i].sku : i \in 1..Len(items)}
              taken == [k \in DOMAIN before |->
                           before[k].qty_on_hand - after[k].qty_on_hand]
          IN  /\ DOMAIN after = DOMAIN before
              /\ new_lots' = <<>>
              /\ \A k \in DOMAIN before : taken[k] >= 0 /\ (k[1] \notin skus => taken[k] = 0)
              /\ \A sku \in skus :
                    SumOver(taken, {k \in DOMAIN before : k[1] = sku})
                       = SumSeq([i \in 1..Len(items) |->
                                    IF items[i].sku = sku THEN items[i].qty ELSE 0])
              /\ \A a, b \in DOMAIN before :
                    (a[1] = b[1] /\ LotBefore(before[a], before[b]) /\ taken[b] > 0)
                       => after[a].qty_on_hand = 0
              /\ event.event_id \in DOMAIN replay'.costs
              /\ replay'.costs[event.event_id]
                    = SumOver([k \in DOMAIN before |->
                                  taken[k] * before[k].unit_cost_cents], DOMAIN before)
      ]_vars

\* A shipment of 10 replayed over the lots B2 (1 at 300, expiring first) and
\* B1 (100 at 200): B2 is emptied, 9 come from B1, the cost is 2100.
C11_Witness ==
    /\ replay.phase = "inventory"
    /\ ~failed
    /\ <<"tomato", "B1">> \in DOMAIN inventory_view
    /\ <<"tomato", "B2">> \in DOMAIN inventory_view
    /\ inventory_view[<<"tomato", "B1">>].qty_on_hand = 91
    /\ inventory_view[<<"tomato", "B2">>].qty_on_hand = 0
    /\ \E e \in DOMAIN replay.costs : replay.costs[e] = 2100

\* Every lot the session holds or the database has committed.
NoNegativeLot(iv, nl) ==
    /\ \A k \in DOMAIN iv : iv[k].qty_on_hand >= 0
    /\ \A i \in 1..Len(nl) : nl[i].qty_on_hand >= 0

\* C12: no inventory read model that replaying GoodsReceived,
\* ShipmentDispatched and InventoryAdjusted events produces has a lot with
\* qty_on_hand < 0: a shipment beyond the stock of its sku, or an adjustment
\* below zero of its lot, ends the replay with the negative-inventory
\* ValueError.
C12_NoNegativeLot ==
    [][/\ ~failed' => /\ NoNegativeLot(inventory_view', new_lots')
                      /\ NoNegativeLot(committed'.inventory_view, <<>>)
       /\ (/\ ~failed
           /\ replay.phase = "inventory"
           /\ replay'.phase = "inventory"
           /\ replay'.at = replay.at + 1
           /\ CanFlush(orders_view, inventory_view, new_orders, new_lots))
          => LET event == ledger[replay.at + 1]
                 items == event.payload.items
                 lots == FlushLots(inventory_view, new_lots)
                 stock(sku) == SumOver([k \in DOMAIN lots |-> lots[k].qty_on_hand],
                                       {k \in DOMAIN lots : k[1] = sku})
                 short == CASE event.event_type = "ShipmentDispatched" ->
                                 \E i \in 1..Len(items) : items[i].qty > stock(items[i].sku)
                            [] event.event_type = "InventoryAdjusted" ->
                                 \E i \in 1..Len(items) :
                                    LET key == <<items[i].sku,
                                                 IF TruthyStr(items[i].batch_id)
                                                 THEN items[i].batch_id[1] ELSE "adjustment">>
                                    IN  items[i].qty_delta
                                           + (IF key \in DOMAIN lots
                                              THEN lots[key].qty_on_hand ELSE 0) < 0
                            [] OTHER -> FALSE
             IN  short => (failed' /\ result'.error = "ValueError")
      ]_vars

\* A replay that the negative-inventory error ended.
C12_Witness ==
    /\ replay.phase = "inventory"
    /\ failed
    /\ result.error = "ValueError"


(***************************************************************************)
(* src/app/domain/inventory/aggregates.py: the in-memory InventoryAggregate *)
(* (SpecAgg). aggregate maps a sku to its bucket, the list of its lots.    *)
(***************************************************************************)
MaxLots == 2

MaxConsume == 4

InventoryLot(sku, batch_id, qty, unit_cost, expiry_date) ==
    [sku |-> sku, batch_id |-> batch_id, qty |-> qty, unit_cost |-> unit_cost,
     expiry_date |-> expiry_date]

\* The sort key of add_lot, (expiry_date or "9999-12-31", batch_id), compared.
AggregateKeyBefore(a, b) ==
    LET ra == IF TruthyStr(a.expiry_date) THEN StrRank(a.expiry_date[1]) ELSE 5
        rb == IF TruthyStr(b.expiry_date) THEN StrRank(b.expiry_date[1]) ELSE 5
    IN  ra < rb \/ (ra = rb /\ StrRank(a.batch_id) < StrRank(b.batch_id))

\* bucket.append(lot); bucket.sort(key=...): the sort is stable and the bucket
\* was sorted, so the lot lands behind the last lot whose key is not greater.
SortedWith(bucket, lot) ==
    LET ahead == {i \in 1..Len(bucket) : ~AggregateKeyBefore(lot, bucket[i])}
        n == Cardinality(ahead)
    IN  SubSeq(bucket, 1, n) \o <<lot>> \o SubSeq(bucket, n + 1, Len(bucket))

add_lot(lots, lot) ==
    [sku \in (DOMAIN lots) \cup {lot.sku} |->
        IF sku = lot.sku THEN SortedWith(Get(lots, sku, <<>>), lot) ELSE lots[sku]]

qty_on_hand(lots, sku) ==
    LET bucket == Get(lots, sku, <<>>)
    IN  SumSeq([i \in 1..Len(bucket) |-> bucket[i].qty])

\* The loop of consume, lines 30-36: the lots are decremented in place.
RECURSIVE ConsumeFrom(_, _, _, _)
ConsumeFrom(bucket, i, remaining, cost) ==
    IF i > Len(bucket) \/ remaining <= 0
    THEN [bucket |-> bucket, remaining |-> remaining, cost |-> cost]
    ELSE LET take == IF bucket[i].qty < remaining THEN bucket[i].qty ELSE remaining
         IN  ConsumeFrom([bucket EXCEPT ![i].qty = @ - take], i + 1, remaining - take,
                         cost + take * bucket[i].unit_cost)

\* SelectSeq of the lots with stock (line 39).
RECURSIVE WithStock(_)
WithStock(bucket) ==
    IF bucket = <<>> THEN <<>>
    ELSE (IF Head(bucket).qty > 0 THEN <<Head(bucket)>> ELSE <<>>) \o WithStock(Tail(bucket))

\* consume: the loop, then ValueError while the lots stay as the loop left
\* them, or the pruning of the emptied lots and the cost.
consume(lots, sku, qty) ==
    LET done == ConsumeFrom(Get(lots, sku, <<>>), 1, qty, 0)
        touched == IF sku \in DOMAIN lots THEN [lots EXCEPT ![sku] = done.bucket] ELSE lots
    IN  IF done.remaining > 0
        THEN [error |-> "ValueError", cost |-> 0, lots |-> touched]
        ELSE [error |-> "", cost |-> done.cost,
              lots |-> [k \in (DOMAIN lots) \cup {sku} |->
                           IF k = sku THEN WithStock(done.bucket) ELSE lots[k]]]

AggregateLots ==
    {InventoryLot("tomato", batch_id, qty, 200, expiry_date) :
        batch_id \in {"B1", "B2"}, qty \in {1, 2},
        expiry_date \in {None, Some("2026-01-15"), Some("2026-01-20")}}

SessionIdle ==
    <<ledger, orders_view, inventory_view, new_orders, new_lots, committed, failed, hashed>>

AddLot ==
    /\ Len(Get(aggregate, "tomato", <<>>)) < MaxLots
    /\ \E lot \in AggregateLots :
          /\ aggregate' = add_lot(aggregate, lot)
          /\ result' = [op |-> "add_lot", status |-> "ok", error |-> "", detail |-> "",
                        sku |-> lot.sku, qty |-> lot.qty, cost |-> 0]
    /\ UNCHANGED <<SessionIdle, ConcIdle, RevealIdle, replay, merkle, commitments,
                   DisclosureIdle>>

Consume ==
    /\ \E qty \in 1..MaxConsume :
          LET done == consume(aggregate, "tomato", qty)
          IN  /\ aggregate' = done.lots
              /\ result' = [op |-> "consume",
                            status |-> IF done.error = "" THEN "ok" ELSE "error",
                            error |-> done.error, detail |-> "",
                            sku |-> "tomato", qty |-> qty, cost |-> done.cost]
    /\ UNCHANGED <<SessionIdle, ConcIdle, RevealIdle, replay, merkle, commitments,
                   DisclosureIdle>>

NextAgg ==
    \/ AddLot
    \/ Consume

SpecAgg == Init /\ [][NextAgg]_vars

\* C13: a FIFO shipment of q units of a sku succeeds when the stock of the sku
\* is exactly q; when the stock is q - 1 it fails with the negative-inventory
\* ValueError and every lot keeps the quantity it had before the attempt.
C13_ShortShipmentLeavesLots ==
    [][(result'.op = "consume" /\ <<aggregate, result>> # <<aggregate', result'>>)
       => LET stock == qty_on_hand(aggregate, result'.sku)
          IN  /\ result'.qty = stock => result'.status = "ok"
              /\ result'.qty = stock + 1
                    => /\ result'.status = "error"
                       /\ result'.error = "ValueError"
                       /\ aggregate' = aggregate
      ]_vars


(***************************************************************************)
(* Order status over a replay, checked under SpecOrders.                   *)
(***************************************************************************)
StatusRank(status) ==
    CASE status = "placed" -> 0
      [] status = "paid" -> 1
      [] status = "shipped" -> 2
      [] status = "refunded" -> 3

\* C14: over any replayed sequence of OrderPlaced, PaymentCaptured,
\* ShipmentDispatched and RefundIssued events, no order's projected status
\* moves to a lower rank in placed < paid < shipped < refunded.
C14_StatusNeverMovesDown ==
    [][(/\ replay.phase = "orders"
        /\ replay'.phase = "orders"
        /\ replay'.at = replay.at + 1
        /\ ~failed')
       => LET before == FlushOrders(orders_view, new_orders)
              after == FlushOrders(orders_view', new_orders')
          IN  \A order_id \in DOMAIN before :
                 /\ order_id \in DOMAIN after
                 /\ StatusRank(after[order_id].status) >= StatusRank(before[order_id].status)
      ]_vars


(***************************************************************************)
(* src/app/core/security.py, src/app/disclosure/selective.py,              *)
(* src/app/api/routes_disclosure.py: selective reveal (SpecReveal).        *)
(* Every call runs in a session of its own (the get_session dependency):   *)
(* the handler acts, then session_scope commits, or rolls back when the    *)
(* handler raised. The transport token is the record of its JSON body and  *)
(* the HMAC-SHA256 over it; an HMAC is <<"hmac", key, body>>.              *)
(***************************************************************************)
MaxTokens == 1

MaxClock == 1200

reveal_token_ttl_seconds == 600

Actor(type) == [type |-> type, id |-> ActorId(type)]

\* _actor_from_api_key: the four identities the API keys stand for.
Actors == {Actor(type) : type \in ActorTypes}

require_roles(actor, allowed) == actor.type \in allowed

_token_key == "DEFAULT_TOKEN_SIGNING_SECRET"

hmac_sha256(key, body) == <<"hmac", key, body>>

create_one_time_token(subject, disclosure_id, ttl_seconds, token_id, issued_to_actor_type, issued_to_actor_id, now) ==
    LET payload == [jti |-> token_id,
                    subject |-> subject,
                    disclosure_id |-> disclosure_id,
                    issued_to_actor_type |-> issued_to_actor_type,
                    issued_to_actor_id |-> issued_to_actor_id,
                    iat |-> now,
                    exp |-> now + ttl_seconds]
        body == <<"json", payload>>
    IN  [body |-> body, mac |-> hmac_sha256(_token_key, body)]

\* Mutant: the MAC is not compared.
verify_one_time_token_without_mac(token, disclosure_id, now) ==
    LET payload == token.body[2]
    IN  IF payload.disclosure_id # disclosure_id
        THEN [status_code |-> 401, detail |-> "token scope mismatch", payload |-> payload]
        ELSE IF now > payload.exp
        THEN [status_code |-> 401, detail |-> "token expired", payload |-> payload]
        ELSE [status_code |-> 200, detail |-> "", payload |-> payload]

\* verify_one_time_token: the MAC, then the claims' disclosure_id and exp.
verify_one_time_token(token, disclosure_id, now) ==
    LET payload == token.body[2]
    IN  IF token.mac # hmac_sha256(_token_key, token.body)
        THEN [status_code |-> 401, detail |-> "token signature mismatch", payload |-> payload]
        ELSE IF payload.disclosure_id # disclosure_id
        THEN [status_code |-> 401, detail |-> "token scope mismatch", payload |-> payload]
        ELSE IF now > payload.exp
        THEN [status_code |-> 401, detail |-> "token expired", payload |-> payload]
        ELSE [status_code |-> 200, detail |-> "", payload |-> payload]

\* proof_lookup_key: metric_key + "|" + canonical_json(group).
proof_lookup_key(metric_key, group) == <<metric_key, canonical_json(group)>>

\* The published runs (disclosure_runs): D1 is selective_disclosure_ready and
\* commits to the detail of revenue_cents; no run D2 was published.
DisclosureRuns ==
    [D1 |-> [policy_id |-> "policy_auditor_v1",
             root_details |-> "ROOT-DETAILS",
             detail_index |->
                (proof_lookup_key("revenue_cents", EmptyDict) :>
                    [detail_root |-> "DETAIL-ROOT",
                     event_hashes |-> <<"EH1", "EH2">>,
                     event_proofs |-> <<"PROOF1", "PROOF2">>])]]

\* SelectiveRevealTokenModel(...) as request_token builds it.
SelectiveRevealTokenModel(token_id, disclosure_id, subject, actor, now, ttl) ==
    [token_id |-> token_id,
     disclosure_id |-> disclosure_id,
     subject |-> subject,
     issued_to_actor_type |-> actor.type,
     issued_to_actor_id |-> actor.id,
     expires_at |-> now + ttl,
     used_at |-> None,
     created_at |-> now]

\* request_token: the role check, then the token and its row (session.add).
request_token(disclosure_id, subject, actor, now, token_id) ==
    IF ~require_roles(actor, {"human", "auditor"})
    THEN [status_code |-> 403,
          detail |-> "selective disclosure token requires human/auditor role",
          token |-> None,
          added |-> <<>>]
    ELSE [status_code |-> 200,
          detail |-> "",
          token |-> Some(create_one_time_token(subject, disclosure_id,
                                               reveal_token_ttl_seconds, token_id,
                                               actor.type, actor.id, now)),
          added |-> << SelectiveRevealTokenModel(token_id, disclosure_id, subject, actor,
                                                 now, reveal_token_ttl_seconds) >>]

\* Mutant: the audit row is left out.
Revealed_without_audit(out, rows, event_id, used, audit) ==
    IF out.status = "error"
    THEN [status_code |-> 500, error |-> out.error, detail |-> out.detail,
          tokens |-> used, audit |-> <<>>, added |-> <<>>, hash_input |-> <<>>]
    ELSE IF ~EventIdFree(rows, event_id)
    THEN [status_code |-> 500, error |-> "IntegrityError", detail |-> "flush",
          tokens |-> used, audit |-> <<>>, added |-> <<>>, hash_input |-> <<>>]
    ELSE [status_code |-> 200, error |-> "", detail |-> "",
          tokens |-> used, audit |-> <<>>, added |-> out.added,
          hash_input |-> out.hash_input]

\* The end of reveal: what LedgerStore.append (out) and its flush leave. The
\* token row is marked and the audit row added before the append is tried.
Revealed(out, rows, event_id, used, audit) ==
    IF out.status = "error"
    THEN [status_code |-> 500, error |-> out.error, detail |-> out.detail,
          tokens |-> used, audit |-> audit, added |-> <<>>, hash_input |-> <<>>]
    ELSE IF ~EventIdFree(rows, event_id)
    THEN [status_code |-> 500, error |-> "IntegrityError", detail |-> "flush",
          tokens |-> used, audit |-> audit, added |-> <<>>, hash_input |-> <<>>]
    ELSE [status_code |-> 200, error |-> "", detail |-> "",
          tokens |-> used, audit |-> audit, added |-> out.added,
          hash_input |-> out.hash_input]

\* Mutant: the audit row is never added.
\* Mutant: used_at is written before the actor and detail checks.
reveal_marking_first(tokens, rows, table, disclosure_id, token, metric_key, group, actor, now, event_id) ==
    LET claims == verify_one_time_token(token, disclosure_id, now)
        token_id == claims.payload.jti
        run == DisclosureRuns[disclosure_id]
        used == [tokens EXCEPT ![token_id].used_at = Some(now)]
        audit == [disclosure_id |-> disclosure_id,
                  actor_type |-> actor.type,
                  actor_id |-> actor.id,
                  challenge_subject |-> claims.payload.subject,
                  requested_metric_key |-> metric_key,
                  requested_group |-> group,
                  granted |-> TRUE,
                  created_at |-> now]
        req == [event_type |-> "SelectiveDisclosureRevealed",
                actor |-> [type |-> actor.type, id |-> actor.id],
                policy_id |-> run.policy_id,
                payload |-> [disclosure_id |-> disclosure_id,
                             metric_key |-> metric_key,
                             group |-> group,
                             revealed_event_hashes |->
                                run.detail_index[proof_lookup_key(metric_key, group)].event_hashes,
                             challenge_subject |-> claims.payload.subject],
                tool_trace |-> [token_exp |-> claims.payload.exp, token_id |-> token_id],
                occurred_at |-> None]
        Fail(code, detail) ==
            [status_code |-> code, error |-> "HTTPException", detail |-> detail,
             tokens |-> tokens, audit |-> <<>>, added |-> <<>>, hash_input |-> <<>>]
    IN  IF ~require_roles(actor, {"human", "auditor"})
        THEN Fail(403, "selective disclosure reveal requires human/auditor role")
        ELSE IF claims.status_code # 200 THEN Fail(claims.status_code, claims.detail)
        ELSE IF disclosure_id \notin DOMAIN DisclosureRuns
        THEN Fail(404, "disclosure not found")
        ELSE IF token_id \notin DOMAIN tokens THEN Fail(401, "token not issued")
        ELSE IF tokens[token_id].disclosure_id # disclosure_id
        THEN Fail(401, "token scope mismatch")
        ELSE IF tokens[token_id].used_at # None THEN Fail(409, "token already used")
        ELSE IF tokens[token_id].expires_at < now THEN Fail(401, "token expired")
        ELSE IF tokens[token_id].issued_to_actor_type # actor.type
                \/ tokens[token_id].issued_to_actor_id # actor.id
        THEN [Fail(403, "token actor mismatch") EXCEPT !.tokens = used]
        ELSE IF proof_lookup_key(metric_key, group) \notin DOMAIN run.detail_index
        THEN [Fail(404, "no selective detail for given metric/group") EXCEPT !.tokens = used]
        ELSE Revealed(append(table, req, load_role_key(expected_signer_role(actor.type)),
                             _latest_event_hash(rows), event_id, now),
                      rows, event_id, used, <<audit>>)

\* SelectiveDisclosureService.reveal over the token table, the ledger rows and
\* the digest table: the checks in their order, each raising HTTPException
\* with nothing changed; then used_at, the audit row, and LedgerStore.append
\* with its flush (event_id is the uuid4 it draws). tokens and audit are what
\* the session holds when the call returns or raises.
reveal(tokens, rows, table, disclosure_id, token, metric_key, group, actor, now, event_id) ==
    LET claims == verify_one_time_token(token, disclosure_id, now)
        token_id == claims.payload.jti
        run == DisclosureRuns[disclosure_id]
        used == [tokens EXCEPT ![token_id].used_at = Some(now)]
        audit == [disclosure_id |-> disclosure_id,
                  actor_type |-> actor.type,
                  actor_id |-> actor.id,
                  challenge_subject |-> claims.payload.subject,
                  requested_metric_key |-> metric_key,
                  requested_group |-> group,
                  granted |-> TRUE,
                  created_at |-> now]
        req == [event_type |-> "SelectiveDisclosureRevealed",
                actor |-> [type |-> actor.type, id |-> actor.id],
                policy_id |-> run.policy_id,
                payload |-> [disclosure_id |-> disclosure_id,
                             metric_key |-> metric_key,
                             group |-> group,
                             revealed_event_hashes |->
                                run.detail_index[proof_lookup_key(metric_key, group)].event_hashes,
                             challenge_subject |-> claims.payload.subject],
                tool_trace |-> [token_exp |-> claims.payload.exp, token_id |-> token_id],
                occurred_at |-> None]
        Fail(code, detail) ==
            [status_code |-> code, error |-> "HTTPException", detail |-> detail,
             tokens |-> tokens, audit |-> <<>>, added |-> <<>>, hash_input |-> <<>>]
    IN  IF ~require_roles(actor, {"human", "auditor"})
        THEN Fail(403, "selective disclosure reveal requires human/auditor role")
        ELSE IF claims.status_code # 200 THEN Fail(claims.status_code, claims.detail)
        ELSE IF disclosure_id \notin DOMAIN DisclosureRuns
        THEN Fail(404, "disclosure not found")
        ELSE IF token_id \notin DOMAIN tokens THEN Fail(401, "token not issued")
        ELSE IF tokens[token_id].disclosure_id # disclosure_id
        THEN Fail(401, "token scope mismatch")
        ELSE IF tokens[token_id].used_at # None THEN Fail(409, "token already used")
        ELSE IF tokens[token_id].expires_at < now THEN Fail(401, "token expired")
        ELSE IF tokens[token_id].issued_to_actor_type # actor.type
                \/ tokens[token_id].issued_to_actor_id # actor.id
        THEN Fail(403, "token actor mismatch")
        ELSE IF proof_lookup_key(metric_key, group) \notin DOMAIN run.detail_index
        THEN Fail(404, "no selective detail for given metric/group")
        ELSE Revealed(append(table, req, load_role_key(expected_signer_role(actor.type)),
                             _latest_event_hash(rows), event_id, now),
                      rows, event_id, used, <<audit>>)

\* What a call of the selective-disclosure API leaves in result: the answer,
\* the caller, and the token_id of the token issued or presented.
Answer(op, status_code, error, detail, actor, token) ==
    [op |-> op,
     status |-> IF status_code = 200 THEN "ok" ELSE "error",
     status_code |-> status_code, error |-> error, detail |-> detail,
     actor |-> actor,
     token_id |-> IF token = None THEN None ELSE Some(token[1].body[2].jti)]

\* uuid4() of request_token: a token_id no row has.
FreshTokenId(tokens) == Uuid(Cardinality(DOMAIN tokens) + 1)

\* The transport token of a stored row, as request_token returned it.
EnvelopeOf(row) ==
    create_one_time_token(row.subject, row.disclosure_id, row.expires_at - row.created_at,
                          row.token_id, row.issued_to_actor_type, row.issued_to_actor_id,
                          row.created_at)

\* The same body under a MAC of another key.
Forged(token) == [token EXCEPT !.mac = hmac_sha256("OTHER_SECRET", token.body)]

\* A token of this deployment's secret whose row no table holds.
OrphanToken ==
    create_one_time_token("auditor-demo", "D1", reveal_token_ttl_seconds, Uuid(0),
                          "auditor", ActorId("auditor"), 0)

\* The tokens a caller may present: the issued ones, a forged copy of the
\* first issued one, and the token without a row.
PresentedTokens(tokens) ==
    {EnvelopeOf(tokens[k]) : k \in DOMAIN tokens}
        \cup {Forged(EnvelopeOf(tokens[k])) : k \in DOMAIN tokens \cap {Uuid(1)}}
        \cup {OrphanToken}

\* The callers of the reveal route: one identity the role check refuses and
\* the two it lets through.
RevealCallers == {Actor(type) : type \in {"agent", "human", "auditor"}}

DisclosureIds == {"D1", "D2"}

MetricKeys == {"revenue_cents", "cogs_cents"}

\* A step of the clock: the lifetime of a token, so that a token is presented
\* before, at and after its expiry.
TickSeconds == reveal_token_ttl_seconds

SessionClean ==
    /\ ~failed
    /\ committed = Database
    /\ new_orders = <<>> /\ new_lots = <<>> /\ new_tokens = <<>> /\ new_audit = <<>>
    /\ replay = NotReplaying

\* SelectiveDisclosureService(session).request_token(...) for a published
\* run inside a session_scope: the row is committed when the call returns,
\* nothing is when it raises.
RequestToken ==
    /\ SessionClean
    /\ Cardinality(DOMAIN reveal_tokens) < MaxTokens
    /\ \E disclosure_id \in DOMAIN DisclosureRuns, actor \in Actors :
        \E r \in {request_token(disclosure_id, "auditor-demo", actor, clock,
                                FreshTokenId(reveal_tokens))} :
            /\ reveal_tokens' = FlushTokens(reveal_tokens, r.added)
            /\ result' = Answer("request_token", r.status_code,
                                IF r.status_code = 200 THEN "" ELSE "HTTPException",
                                r.detail, actor, r.token)
    /\ committed' = [committed EXCEPT !.reveal_tokens = reveal_tokens']
    /\ UNCHANGED <<ledger, hashed, orders_view, inventory_view, new_orders, new_lots, failed,
                   reveal_audit, new_tokens, new_audit, clock, replay, ConcIdle, MemoryIdle>>

\* GET /disclosure/{disclosure_id}/selective/request: the route has no actor
\* dependency and calls request_token(disclosure_id=..., subject=...) without
\* the actor the method requires: TypeError, whoever calls.
SelectiveRequest ==
    /\ SessionClean
    /\ \E disclosure_id \in DisclosureIds, actor \in Actors :
        result' = IF disclosure_id \notin DOMAIN DisclosureRuns
                  THEN Answer("selective_request", 404, "HTTPException",
                              "disclosure not found", actor, None)
                  ELSE Answer("selective_request", 500, "TypeError",
                              "request_token() missing 1 required positional argument: 'actor'",
                              actor, None)
    /\ UNCHANGED <<ledger, hashed, orders_view, inventory_view, new_orders, new_lots, failed,
                   committed, RevealIdle, replay, ConcIdle, MemoryIdle>>

\* The event a published run discloses, appended and committed by the
\* session of another route before a token for the run can be asked for: the
\* first row of the ledger.
DisclosedEvent ==
    EventCreateRequest("OrderPlaced", "agent", OrderPlacedPayload("O1", 1, 500), EmptyDict,
                       None)

AppendDisclosedEvent ==
    /\ SessionClean
    /\ ledger = <<>>
    /\ reveal_tokens = EmptyDict
    /\ clock = 0
    /\ \E out \in {append(hashed, DisclosedEvent, load_role_key("agent"),
                           _latest_event_hash(ledger), FreshUuid(ledger), clock)} :
        /\ out.status = "ok"
        /\ ledger' = Inserted(ledger, out.added)
        /\ hashed' = Hashed(hashed, out.hash_input)
        /\ result' = Outcome("append", "ok", "", "")
    /\ committed' = [committed EXCEPT !.ledger = ledger', !.hashed = hashed']
    /\ UNCHANGED <<orders_view, inventory_view, new_orders, new_lots, failed,
                   RevealIdle, replay, ConcIdle, MemoryIdle>>

\* The uuid4 of the reveal event is drawn in LedgerStore.append: a call that
\* raises before it draws none.
RevealDrawsUuid(disclosure_id, token, metric_key, actor) ==
    reveal(reveal_tokens, ledger, hashed, disclosure_id, token, metric_key, EmptyDict,
           actor, clock, FreshUuid(ledger)).status_code = 200

\* POST /disclosure/{disclosure_id}/selective/reveal: reveal in the session
\* of get_session, committed when it returns and rolled back when it raises.
Reveal ==
    /\ SessionClean
    /\ \E token \in PresentedTokens(reveal_tokens), disclosure_id \in DisclosureIds,
          metric_key \in MetricKeys, actor \in RevealCallers :
      \E event_id \in IF RevealDrawsUuid(disclosure_id, token, metric_key, actor)
                       THEN UuidChoices(ledger) ELSE {FreshUuid(ledger)} :
        \E r \in {reveal(reveal_tokens, ledger, hashed, disclosure_id, token, metric_key,
                         EmptyDict, actor, clock, event_id)} :
            /\ result' = Answer("reveal", r.status_code, r.error, r.detail, actor,
                                Some(token))
            /\ IF r.status_code = 200
               THEN /\ reveal_tokens' = r.tokens
                    /\ reveal_audit' = reveal_audit \o r.audit
                    /\ ledger' = Inserted(ledger, r.added)
                    /\ hashed' = Hashed(hashed, r.hash_input)
               ELSE /\ reveal_tokens' = committed.reveal_tokens
                    /\ reveal_audit' = committed.reveal_audit
                    /\ ledger' = committed.ledger
                    /\ hashed' = committed.hashed
    /\ committed' = [committed EXCEPT !.reveal_tokens = reveal_tokens',
                                      !.reveal_audit = reveal_audit',
                                      !.ledger = ledger',
                                      !.hashed = hashed']
    /\ UNCHANGED <<orders_view, inventory_view, new_orders, new_lots, failed,
                   new_tokens, new_audit, clock, replay, ConcIdle, MemoryIdle>>

\* Time passes.
Tick ==
    /\ clock + TickSeconds <= MaxClock
    /\ clock' = clock + TickSeconds
    /\ UNCHANGED <<ledger, hashed, orders_view, inventory_view, new_orders, new_lots, failed,
                   committed, result, reveal_tokens, new_tokens, reveal_audit, new_audit,
                   replay, ConcIdle, MemoryIdle>>

NextReveal == AppendDisclosedEvent \/ RequestToken \/ SelectiveRequest \/ Reveal \/ Tick

SpecReveal == Init /\ [][NextReveal]_vars


(***************************************************************************)
(* Claims on selective reveal (SpecReveal).                                *)
(***************************************************************************)
\* A reveal of the stored token row, presented as issued on its own
\* disclosure, by a caller the role check lets through.
RevealOf(row, actor, metric_key, event_id) ==
    reveal(reveal_tokens, ledger, hashed, row.disclosure_id, EnvelopeOf(row), metric_key,
           EmptyDict, actor, clock, event_id)

PermittedCallers == {actor \in RevealCallers : require_roles(actor, {"human", "auditor"})}

\* C15: once a reveal has set used_at, every later reveal with the same token
\* fails with AlreadyUsed (HTTP 409), whenever it is made.
C15_UsedTokenAnswersAlreadyUsed ==
    \A k \in DOMAIN reveal_tokens :
        reveal_tokens[k].used_at # None =>
            \A actor \in PermittedCallers, metric_key \in MetricKeys,
               event_id \in UuidChoices(ledger) :
                /\ RevealOf(reveal_tokens[k], actor, metric_key, event_id).status_code = 409
                /\ RevealOf(reveal_tokens[k], actor, metric_key, event_id).detail
                        = "token already used"


\* The failures C16 names: actor mismatch, scope mismatch, expiry, no detail.
RefusedDetails ==
    {"token actor mismatch", "token scope mismatch", "token expired",
     "no selective detail for given metric/group"}

\* reveal raising one of them leaves the session as it found it.
RefusalTouchesNothing ==
    \A token \in PresentedTokens(reveal_tokens), disclosure_id \in DisclosureIds,
       metric_key \in MetricKeys, actor \in RevealCallers :
        \E r \in {reveal(reveal_tokens, ledger, hashed, disclosure_id, token, metric_key,
                         EmptyDict, actor, clock, FreshUuid(ledger))} :
            r.detail \in RefusedDetails =>
                /\ r.status_code \in {401, 403, 404}
                /\ r.tokens = reveal_tokens
                /\ r.audit = <<>>
                /\ r.added = <<>>

\* The issued-to actor of a token neither used nor expired, on a run with the
\* detail asked for, is served.
IssuedToActorIsServed ==
    \A k \in DOMAIN reveal_tokens :
        (reveal_tokens[k].used_at = None /\ clock <= reveal_tokens[k].expires_at) =>
            RevealOf(reveal_tokens[k], Actor(reveal_tokens[k].issued_to_actor_type),
                     "revenue_cents", FreshUuid(ledger)).status_code = 200

\* C16: a reveal that fails on the actor, the scope, the expiry or the detail
\* consumes no token and records nothing (no used_at, no audit row, no
\* ledger event), and the issued-to actor can still redeem the token later.
C16_RefusedRevealChangesNothing ==
    /\ [](RefusalTouchesNothing /\ IssuedToActorIsServed)
    /\ [][(result'.op = "reveal" /\ result'.detail \in RefusedDetails) =>
            /\ reveal_tokens' = reveal_tokens
            /\ reveal_audit' = reveal_audit
            /\ ledger' = ledger
            /\ committed' = committed]_vars

C16_Witness ==
    /\ result.op = "reveal"
    /\ result.detail = "token actor mismatch"
    /\ \E k \in DOMAIN reveal_tokens :
        /\ result.token_id = Some(k)
        /\ reveal_tokens[k].used_at = None
        /\ reveal_audit = <<>>
        /\ RevealOf(reveal_tokens[k], Actor(reveal_tokens[k].issued_to_actor_type),
                    "revenue_cents", FreshUuid(ledger)).status_code = 200


\* The conditions of C17 for a presented token, read from the token and the
\* stored rows rather than from reveal.
Claims(token) == token.body[2]

IssuedHere(token) ==
    token = create_one_time_token(Claims(token).subject, Claims(token).disclosure_id,
                                  Claims(token).exp - Claims(token).iat, Claims(token).jti,
                                  Claims(token).issued_to_actor_type,
                                  Claims(token).issued_to_actor_id, Claims(token).iat)

RowExists(token) == Claims(token).jti \in DOMAIN reveal_tokens

RowOf(token) == reveal_tokens[Claims(token).jti]

ScopeMatches(token, disclosure_id) ==
    /\ Claims(token).disclosure_id = disclosure_id
    /\ RowExists(token) => RowOf(token).disclosure_id = disclosure_id

Unused(token) == RowExists(token) => RowOf(token).used_at = None

NotExpired(token) ==
    /\ clock <= Claims(token).exp
    /\ RowExists(token) => clock <= RowOf(token).expires_at

ActorMatches(token, actor) ==
    RowExists(token) =>
        /\ RowOf(token).issued_to_actor_type = actor.type
        /\ RowOf(token).issued_to_actor_id = actor.id

Redeemable(token, disclosure_id, actor) ==
    /\ IssuedHere(token)
    /\ ScopeMatches(token, disclosure_id)
    /\ RowExists(token)
    /\ Unused(token)
    /\ NotExpired(token)
    /\ ActorMatches(token, actor)

TokenErrors ==
    {"token signature mismatch", "token scope mismatch", "token not issued",
     "token already used", "token expired", "token actor mismatch"}

\* What one reveal answers, against the conditions.
RevealAnswers(r, token, disclosure_id, actor) ==
    /\ r.status_code = 200 => Redeemable(token, disclosure_id, actor)
    /\ (actor \in PermittedCallers /\ ~Redeemable(token, disclosure_id, actor))
            => r.detail \in TokenErrors /\ r.status_code \in {401, 403, 409}
    /\ r.detail = "token signature mismatch" => ~IssuedHere(token)
    /\ r.detail = "token scope mismatch" => ~ScopeMatches(token, disclosure_id)
    /\ r.detail = "token not issued" => ~RowExists(token)
    /\ r.detail = "token already used" => ~Unused(token)
    /\ r.detail = "token expired" => ~NotExpired(token)
    /\ r.detail = "token actor mismatch" => ~ActorMatches(token, actor)

\* C17: a reveal succeeds only if the MAC verifies, the disclosure matches the
\* claims and the row, the row exists, is unused and unexpired and was issued
\* to the caller; a caller with the role who fails one of them gets the error
\* of a failed condition; an expired token stays expired.
C17_RevealOnlyWhenRedeemable ==
    /\ [](\A token \in PresentedTokens(reveal_tokens), disclosure_id \in DisclosureIds,
             metric_key \in MetricKeys, actor \in RevealCallers :
            RevealAnswers(reveal(reveal_tokens, ledger, hashed, disclosure_id, token,
                                 metric_key, EmptyDict, actor, clock, FreshUuid(ledger)),
                          token, disclosure_id, actor))
    /\ [][/\ clock' >= clock
          /\ \A k \in DOMAIN reveal_tokens :
                /\ k \in DOMAIN reveal_tokens'
                /\ reveal_tokens'[k].expires_at = reveal_tokens[k].expires_at
                /\ (reveal_tokens[k].used_at = None /\ clock > reveal_tokens[k].expires_at)
                        => reveal_tokens'[k].used_at = None]_vars

\* A token redeemed in the last second of its life.
C17_Witness ==
    /\ result.op = "reveal"
    /\ result.status_code = 200
    /\ \E k \in DOMAIN reveal_tokens :
        /\ result.token_id = Some(k)
        /\ reveal_tokens[k].used_at = Some(reveal_tokens[k].expires_at)
        /\ result.actor = Actor(reveal_tokens[k].issued_to_actor_type)


\* C18: a token request for a published run is answered by the caller's
\* role: a token for a human or an auditor, HTTP 403 for an agent or the
\* system, and a row only with a token.
C18_TokenRequestAnsweredByRole ==
    /\ (result.op \in {"request_token", "selective_request"}
            /\ result.detail # "disclosure not found") =>
        IF result.actor.type \in {"human", "auditor"}
        THEN result.status_code = 200 /\ result.token_id # None
        ELSE result.status_code = 403 /\ result.token_id = None
    /\ \A k \in DOMAIN reveal_tokens :
        reveal_tokens[k].issued_to_actor_type \in {"human", "auditor"}


\* The SelectiveDisclosureRevealed events of a token, by their place.
RevealEventsOf(k) ==
    {i \in 1..Len(ledger) :
        /\ ledger[i].event_type = "SelectiveDisclosureRevealed"
        /\ ledger[i].tool_trace.token_id = k}

RevealEvents == {i \in 1..Len(ledger) : ledger[i].event_type = "SelectiveDisclosureRevealed"}

UsedTokens == {k \in DOMAIN reveal_tokens : reveal_tokens[k].used_at # None}

\* The audit rows of one redemption: the table has no token_id, a row is told
\* by the disclosure, the actor, the subject and the time.
AuditRowsOf(row) ==
    {i \in 1..Len(reveal_audit) :
        /\ reveal_audit[i].disclosure_id = row.disclosure_id
        /\ reveal_audit[i].actor_type = row.issued_to_actor_type
        /\ reveal_audit[i].actor_id = row.issued_to_actor_id
        /\ reveal_audit[i].challenge_subject = row.subject
        /\ Some(reveal_audit[i].created_at) = row.used_at
        /\ reveal_audit[i].granted}

TrailOfUsedToken(k) ==
    /\ Cardinality(RevealEventsOf(k)) = 1
    /\ \A i \in RevealEventsOf(k) :
        /\ ledger[i].payload.disclosure_id = reveal_tokens[k].disclosure_id
        /\ ledger[i].payload.challenge_subject = reveal_tokens[k].subject
        /\ ledger[i].payload.revealed_event_hashes
            = DisclosureRuns[reveal_tokens[k].disclosure_id]
                .detail_index[proof_lookup_key(ledger[i].payload.metric_key,
                                               ledger[i].payload.group)].event_hashes
        /\ ledger[i].actor_type = reveal_tokens[k].issued_to_actor_type
        /\ ledger[i].actor_id = reveal_tokens[k].issued_to_actor_id
        /\ Some(ledger[i].occurred_at) = reveal_tokens[k].used_at
    /\ AuditRowsOf(reveal_tokens[k]) # {}

\* C19: a token is used if and only if its redemption has left one audit row
\* and one SelectiveDisclosureRevealed event with the token_id in tool_trace
\* and the revealed hashes and the subject in the payload; a reveal whose
\* append is rejected leaves the token unused, with no row and no event.
C19_TokenUseAndTrailTogether ==
    /\ [](/\ \A k \in DOMAIN reveal_tokens :
                IF k \in UsedTokens THEN TrailOfUsedToken(k) ELSE RevealEventsOf(k) = {}
          /\ \A i \in RevealEvents : ledger[i].tool_trace.token_id \in UsedTokens
          /\ Len(reveal_audit) = Cardinality(UsedTokens)
          /\ Cardinality(RevealEvents) = Cardinality(UsedTokens)
          /\ new_tokens = <<>> /\ new_audit = <<>> /\ committed = Database)
    /\ [][(result'.op = "reveal" /\ result'.status_code = 500) =>
            /\ reveal_tokens' = reveal_tokens
            /\ reveal_audit' = reveal_audit
            /\ ledger' = ledger
            /\ committed' = committed]_vars

C19_Witness ==
    /\ result.op = "reveal"
    /\ result.status_code = 200
    /\ \E k \in UsedTokens :
        /\ result.token_id = Some(k)
        /\ Cardinality(RevealEventsOf(k)) = 1
        /\ Cardinality(AuditRowsOf(reveal_tokens[k])) = 1
        /\ Len(reveal_audit) = 1

\* The append of a reveal event rejected (its event_id is taken): the token is
\* still unused.
C19_RejectedAppend ==
    /\ result.op = "reveal"
    /\ result.status_code = 500
    /\ result.error = "IntegrityError"
    /\ \E k \in DOMAIN reveal_tokens :
        /\ result.token_id = Some(k)
        /\ reveal_tokens[k].used_at = None
        /\ reveal_audit = <<>>
        /\ RevealEvents = {}


(***************************************************************************)
(* src/app/ledger/merkle.py (SpecMerkle). A digest is the term of what was  *)
(* hashed: SHA-256 is taken as collision-free, and hash_pair hashes the two *)
(* 32-byte digests side by side, so that it is one-to-one in the pair.     *)
(* Lists are indexed from 0 in the code and from 1 here; proof takes the   *)
(* code's index.                                                           *)
(***************************************************************************)
MaxLeaves == 3

EMPTY_ROOT == <<"sha256", "">>

hash_pair(left_hex, right_hex) == <<"sha256", left_hex, right_hex>>

ProofNode(direction, hash) == [direction |-> direction, hash |-> hash]

\* level + [level[-1]] when the level has an odd number of nodes.
Padded(level) ==
    IF Len(level) % 2 = 1 THEN Append(level, level[Len(level)]) ELSE level

\* One turn of the while loop of MerkleTree.__init__.
NextLevel(current) ==
    LET padded == Padded(current)
    IN  <<>> \o [i \in 1..(Len(padded) \div 2) |->
                    hash_pair(padded[2 * i - 1], padded[2 * i])]

RECURSIVE LevelsFrom(_)
LevelsFrom(current) ==
    IF Len(current) <= 1 THEN <<current>>
    ELSE <<current>> \o LevelsFrom(NextLevel(current))

MerkleTree(leaf_hashes) ==
    [leaf_hashes |-> leaf_hashes,
     levels |-> IF leaf_hashes = <<>> THEN << <<EMPTY_ROOT>> >> ELSE LevelsFrom(leaf_hashes)]

root(tree) == tree.levels[Len(tree.levels)][1]

\* The loop of MerkleTree.proof from level_idx on, idx the node's place.
RECURSIVE ProofFrom(_, _, _)
ProofFrom(tree, level_idx, idx) ==
    IF level_idx >= Len(tree.levels) - 1 THEN <<>>
    ELSE LET padded == Padded(tree.levels[level_idx + 1])
             is_right == idx % 2 = 1
             sibling_index == IF is_right THEN idx - 1 ELSE idx + 1
         IN  << ProofNode(IF is_right THEN "left" ELSE "right", padded[sibling_index + 1]) >>
                \o ProofFrom(tree, level_idx + 1, idx \div 2)

proof(tree, index) ==
    IF tree.leaf_hashes = <<>>
    THEN [error |-> "IndexError", detail |-> "cannot build proof from empty tree",
          nodes |-> <<>>]
    ELSE IF index < 0 \/ index >= Len(tree.leaf_hashes)
    THEN [error |-> "IndexError", detail |-> "leaf index out of range", nodes |-> <<>>]
    ELSE [error |-> "", detail |-> "", nodes |-> ProofFrom(tree, 0, index)]

\* Mutant: the sibling is always taken to be on the right.
RECURSIVE verify_from_rightwards(_, _)
verify_from_rightwards(current, nodes) ==
    IF nodes = <<>> THEN <<current>>
    ELSE IF Head(nodes).direction \in {"left", "right"}
    THEN verify_from_rightwards(hash_pair(current, Head(nodes).hash), Tail(nodes))
    ELSE <<>>

\* The loop of verify_proof: the digest reached, or nothing on a direction
\* that is neither left nor right.
RECURSIVE verify_from(_, _)
verify_from(current, nodes) ==
    IF nodes = <<>> THEN <<current>>
    ELSE IF Head(nodes).direction = "left"
    THEN verify_from(hash_pair(Head(nodes).hash, current), Tail(nodes))
    ELSE IF Head(nodes).direction = "right"
    THEN verify_from(hash_pair(current, Head(nodes).hash), Tail(nodes))
    ELSE <<>>

verify_proof(leaf_hash, nodes, root_hash) == verify_from(leaf_hash, nodes) = <<root_hash>>

\* Leaf digests: two payload digests and one that is also the digest of a pair.
LeafHashes == {<<"sha256", "a">>, <<"sha256", "b">>,
               hash_pair(<<"sha256", "a">>, <<"sha256", "b">>)}

\* "0" * 64 of the tamper test.
BadLeaf == <<"sha256", "0">>

LeafLists == UNION {[1..n -> LeafHashes] : n \in 0..MaxLeaves}

\* What a verifier may be handed as a digest: the leaves, the bad leaf, and
\* every node of the tree.
KnownHashes(tree) ==
    LeafHashes \cup {BadLeaf}
        \cup UNION {SeqToSet(tree.levels[l]) : l \in 1..Len(tree.levels)}

NoTree == [leaf_hashes |-> <<>>, levels |-> <<>>]

InitMerkle ==
    /\ ledger = <<>>
    /\ orders_view = EmptyDict
    /\ inventory_view = EmptyDict
    /\ new_orders = <<>>
    /\ new_lots = <<>>
    /\ failed = FALSE
    /\ result = Outcome("init", "ok", "", "")
    /\ hashed = <<>>
    /\ committed = [ledger |-> <<>>, orders_view |-> EmptyDict, inventory_view |-> EmptyDict,
                    hashed |-> <<>>, reveal_tokens |-> EmptyDict, reveal_audit |-> <<>>]
    /\ pc = EmptyDict
    /\ held = EmptyDict
    /\ uncommitted = EmptyDict
    /\ replay = NotReplaying
    /\ aggregate = EmptyDict
    /\ reveal_tokens = EmptyDict
    /\ new_tokens = <<>>
    /\ new_audit = <<>>
    /\ reveal_audit = <<>>
    /\ clock = 0
    /\ commitments = NoCommitments
    /\ disclosure_runs = EmptyDict
    /\ disclosure_metrics = <<>>
    /\ disclosure_grouped_metrics = <<>>
    /\ anchor_records = EmptyDict
    /\ immudb = EmptyDict
    /\ committed_disclosure = NoDisclosures
    /\ publish = NoPublish
    /\ today = 2
    /\ orchestrator = NoOrchestratorRun
    /\ skill = NoSkillRun
    /\ \E leaf_hashes \in LeafLists :
        merkle = [op |-> "input", leaf_hashes |-> leaf_hashes, tree |-> NoTree, index |-> 0,
                  error |-> "", nodes |-> <<>>, leaf_hash |-> BadLeaf, verified |-> FALSE]

MerkleIdle ==
    <<ledger, orders_view, inventory_view, new_orders, new_lots, failed, result, hashed,
      committed, ConcIdle, replay, aggregate, RevealIdle, commitments, DisclosureIdle>>

\* tree = MerkleTree(leaves)
BuildTree ==
    /\ merkle.op = "input"
    /\ merkle' = [merkle EXCEPT !.op = "tree", !.tree = MerkleTree(merkle.leaf_hashes)]
    /\ UNCHANGED MerkleIdle

\* tree.proof(index)
BuildProof ==
    /\ merkle.op = "tree"
    /\ \E index \in (0 - 1)..Len(merkle.leaf_hashes) :
        merkle' = [merkle EXCEPT !.op = "proof", !.index = index,
                                 !.error = proof(merkle.tree, index).error,
                                 !.nodes = proof(merkle.tree, index).nodes]
    /\ UNCHANGED MerkleIdle

\* verify_proof(leaf_hash, proof, tree.root), the proof as built or with the
\* hash of one node replaced.
VerifyProof ==
    /\ merkle.op = "proof"
    /\ merkle.error = ""
    /\ \E leaf_hash \in KnownHashes(merkle.tree) :
        \/ merkle' = [merkle EXCEPT !.op = "verify", !.leaf_hash = leaf_hash,
                         !.verified = verify_proof(leaf_hash, merkle.nodes,
                                                   root(merkle.tree))]
        \/ \E j \in 1..Len(merkle.nodes) :
           \E h \in KnownHashes(merkle.tree) \ {merkle.nodes[j].hash} :
            merkle' = [merkle EXCEPT !.op = "verify_altered", !.leaf_hash = leaf_hash,
                         !.nodes = [merkle.nodes EXCEPT ![j].hash = h],
                         !.verified = verify_proof(leaf_hash,
                                                   [merkle.nodes EXCEPT ![j].hash = h],
                                                   root(merkle.tree))]
    /\ UNCHANGED MerkleIdle

NextMerkle == BuildTree \/ BuildProof \/ VerifyProof

SpecMerkle == InitMerkle /\ [][NextMerkle]_vars


(***************************************************************************)
(* Claims on the Merkle tree (SpecMerkle).                                 *)
(***************************************************************************)
\* C20: the proof of leaf i verifies against the root for the digest of leaf i
\* and for no other digest, and no longer verifies once the hash of one of
\* its nodes is replaced; every index of a non-empty list has a proof; the
\* root of a one-leaf tree is the leaf and the root of the empty tree is the
\* SHA-256 of the empty input.
C20_ProofVerifiesOnlyItsLeaf ==
    /\ merkle.op = "verify" =>
        (merkle.verified <=> merkle.leaf_hash = merkle.leaf_hashes[merkle.index + 1])
    /\ merkle.op = "verify_altered" => ~merkle.verified
    /\ merkle.op = "proof" =>
        (merkle.error = "" <=> merkle.index \in 0..(Len(merkle.leaf_hashes) - 1))
    /\ merkle.op # "input" =>
        /\ Len(merkle.leaf_hashes) = 1 => root(merkle.tree) = merkle.leaf_hashes[1]
        /\ merkle.leaf_hashes = <<>> => root(merkle.tree) = <<"sha256", "">>
        /\ \A i \in 0..(Len(merkle.leaf_hashes) - 1) :
            verify_proof(merkle.leaf_hashes[i + 1], proof(merkle.tree, i).nodes,
                         root(merkle.tree))

\* Three leaves: the last one is paired with its own copy.
C20_Witness ==
    /\ merkle.op = "verify"
    /\ Len(merkle.leaf_hashes) = 3
    /\ merkle.index = 2
    /\ merkle.nodes[1] = ProofNode("right", merkle.leaf_hashes[3])
    /\ merkle.nodes[2].direction = "left"
    /\ merkle.leaf_hash = merkle.leaf_hashes[3]
    /\ merkle.verified


(***************************************************************************)
(* Disclosure: the policy catalog, compute_disclosure and the redaction of *)
(* its grouped rows (src/app/disclosure).  The model follows five keys of  *)
(* all_metrics, the dimensions channel, category and sku, and the event    *)
(* types OrderPlaced, PaymentCaptured, ShipmentDispatched, GoodsReceived;  *)
(* every other metric of the code is a sum over event types the ledgers of *)
(* the model do not hold.  A group is a function from dimensions to        *)
(* Optional strings (None is JSON null).                                   *)
(***************************************************************************)
RedactionRules(hide_supplier_id, allow_sku) ==
    [hide_customer_ref |-> TRUE, hide_supplier_id |-> hide_supplier_id,
     hide_unit_cost |-> TRUE, allow_sku |-> allow_sku]

DisclosurePolicy(policy_id, allowed_metrics, allowed_group_by, redaction, delay_days, proof_level) ==
    [policy_id |-> policy_id, version |-> "1.2.0",
     allowed_metrics |-> allowed_metrics, allowed_group_by |-> allowed_group_by,
     redaction |-> redaction, delay_days |-> delay_days, proof_level |-> proof_level]

\* DisclosurePolicy.policy_hash(): the digest of the dumped policy.
disclosure_policy_hash(policy) == <<"sha256", canonical_json(policy)>>

COMMON_GROUP_BY == {"channel", "category"}

COMMON_METRICS == {"revenue_cents", "orders_count", "shipment_qty"}

DEFAULT_POLICIES ==
    [policy_public_v1 |->
        DisclosurePolicy("policy_public_v1", COMMON_METRICS, COMMON_GROUP_BY,
                         RedactionRules(TRUE, FALSE), 1, "root_plus_proof"),
     policy_investor_v1 |->
        DisclosurePolicy("policy_investor_v1",
                         COMMON_METRICS \cup {"gross_profit_cents", "cogs_cents"},
                         COMMON_GROUP_BY \cup {"sku"},
                         RedactionRules(TRUE, TRUE), 0, "root_plus_proof"),
     policy_auditor_v1 |->
        DisclosurePolicy("policy_auditor_v1",
                         COMMON_METRICS \cup {"gross_profit_cents", "cogs_cents"},
                         COMMON_GROUP_BY \cup {"sku"},
                         RedactionRules(TRUE, TRUE), 0, "selective_disclosure_ready")]

\* The policy the proof-level test and the disclosure skill name: the public
\* policy with proof_level root_only.
policy_public_root_only_v1 ==
    DisclosurePolicy("policy_public_root_only_v1", COMMON_METRICS, COMMON_GROUP_BY,
                     RedactionRules(TRUE, FALSE), 1, "root_only")

\* The catalog get_policy reads.
PolicyCatalog ==
    [id \in (DOMAIN DEFAULT_POLICIES) \cup {"policy_public_root_only_v1"} |->
        IF id = "policy_public_root_only_v1" THEN policy_public_root_only_v1
        ELSE DEFAULT_POLICIES[id]]

\* get_policy: the policy, or nothing where the code raises KeyError.
get_policy(policy_id) ==
    IF policy_id \in DOMAIN PolicyCatalog THEN Some(PolicyCatalog[policy_id]) ELSE None

SKU_CATEGORY_MAP == [tomato |-> "vegetable", cucumber |-> "vegetable"]

_sku_category(sku) == Get(SKU_CATEGORY_MAP, sku, sku)

_filter_period(events, period_start, period_end) ==
    SelectSeq(events, LAMBDA e : period_start <= e.occurred_at /\ e.occurred_at < period_end)

\* The concatenation of the sequences of a sequence.
RECURSIVE Flatten(_)
Flatten(seqs) == IF seqs = <<>> THEN <<>> ELSE Head(seqs) \o Flatten(Tail(seqs))

EventsOfType(events, event_type) == SelectSeq(events, LAMBDA e : e.event_type = event_type)

\* order_meta of _order_line_rows: the metadata of the last OrderPlaced of
\* each order.
OrderMeta(events) ==
    LET placed == EventsOfType(events, "OrderPlaced")
        last(order_id) == CHOOSE i \in 1..Len(placed) :
                              /\ placed[i].payload.order_id = order_id
                              /\ \A j \in (i + 1)..Len(placed) :
                                    placed[j].payload.order_id # order_id
    IN  [order_id \in {placed[i].payload.order_id : i \in 1..Len(placed)} |->
            [channel |-> Some(placed[last(order_id)].payload.channel)]]

\* The rows of _order_line_rows: one per item of each OrderPlaced.
_order_line_rows(events) ==
    LET placed == EventsOfType(events, "OrderPlaced")
    IN  Flatten([i \in 1..Len(placed) |->
                    [k \in 1..Len(placed[i].payload.items) |->
                        [order_id |-> placed[i].payload.order_id,
                         sku |-> placed[i].payload.items[k].sku,
                         category |-> _sku_category(placed[i].payload.items[k].sku),
                         value |-> placed[i].payload.items[k].qty
                                      * placed[i].payload.items[k].unit_price,
                         channel |-> Some(placed[i].payload.channel),
                         event_hash |-> placed[i].event_hash]]])

_payment_rows(events) ==
    LET captured == EventsOfType(events, "PaymentCaptured")
    IN  [i \in 1..Len(captured) |->
            [order_id |-> captured[i].payload.order_id,
             amount |-> captured[i].payload.amount,
             event_hash |-> captured[i].event_hash]]

\* The rows of _shipment_rows: one per item, with the channel of the order
\* when the order was placed in the period.
_shipment_rows(events, order_meta) ==
    LET shipped == EventsOfType(events, "ShipmentDispatched")
    IN  Flatten([i \in 1..Len(shipped) |->
                    [k \in 1..Len(shipped[i].payload.items) |->
                        [order_id |-> shipped[i].payload.order_id,
                         sku |-> shipped[i].payload.items[k].sku,
                         category |-> _sku_category(shipped[i].payload.items[k].sku),
                         value |-> shipped[i].payload.items[k].qty,
                         channel |-> IF shipped[i].payload.order_id \in DOMAIN order_meta
                                     THEN order_meta[shipped[i].payload.order_id].channel
                                     ELSE None,
                         event_hash |-> shipped[i].event_hash]]])

\* generate_pnl: the cost of goods sold is the sum of the shipment costs of
\* the ShipmentDispatched events it is given.
generate_pnl(events, shipment_costs) ==
    LET shipped == EventsOfType(events, "ShipmentDispatched")
    IN  [cogs |-> SumSeq([i \in 1..Len(shipped) |->
                             Get(shipment_costs, shipped[i].event_id, 0)])]

_metric_key(metric_key, group) == proof_lookup_key(metric_key, group)

\* The canonical JSON texts of the groups, in the order of the texts:
\* {"category":"vegetable"} < {"channel":"offline"} < {"channel":"online"}
\* < {"channel":null} < {"sku":"tomato"} < {}.
CanonicalGroups ==
    << ("category" :> Some("vegetable")), ("channel" :> Some("offline")),
       ("channel" :> Some("online")), ("channel" :> None), ("sku" :> Some("tomato")),
       EmptyDict >>

GroupRank(group) == CHOOSE i \in 1..Len(CanonicalGroups) : CanonicalGroups[i] = group

\* The metric keys in the order of their texts.
MetricKeysInOrder ==
    <<"cogs_cents", "gross_profit_cents", "orders_count", "revenue_cents", "shipment_qty">>

MetricRank(metric_key) ==
    CHOOSE i \in 1..Len(MetricKeysInOrder) : MetricKeysInOrder[i] = metric_key

\* The digests in the order sorted() gives them: the order of their texts,
\* which the model takes to be the order of first use.
RECURSIVE SortedHashes(_)
SortedHashes(hashes) ==
    IF hashes = {} THEN <<>>
    ELSE LET first == CHOOSE h \in hashes : \A o \in hashes : h[2] <= o[2]
         IN  <<first>> \o SortedHashes(hashes \ {first})

\* The value of a row in a dimension of group_by.
Dimension(row, k) ==
    CASE k = "channel" -> row.channel
      [] k = "category" -> Some(row.category)
      [] k = "sku" -> Some(row.sku)

GroupOf(row, group_by) == [k \in SeqToSet(group_by) |-> Dimension(row, k)]

\* _group_subset(df, group)
_group_subset(rows, group_by, group) == SelectSeq(rows, LAMBDA r : GroupOf(r, group_by) = group)

\* df.groupby(group_by, dropna=False)[column].sum() and the loop over its
\* rows: one grouped metric per group, the groups in the order of their
\* values (for one dimension, the order of their canonical texts).
RECURSIVE GroupedSums(_, _, _, _)
GroupedSums(metric_key, rows, group_by, groups) ==
    IF groups = {} THEN <<>>
    ELSE LET first == CHOOSE g \in groups : \A o \in groups : GroupRank(g) <= GroupRank(o)
             subset == _group_subset(rows, group_by, first)
         IN  << [metric_key |-> metric_key, group |-> first,
                 value |-> SumSeq([i \in 1..Len(subset) |-> subset[i].value])] >>
                \o GroupedSums(metric_key, rows, group_by, groups \ {first})

GroupsOf(rows, group_by) == {GroupOf(rows[i], group_by) : i \in 1..Len(rows)}

\* The detail_event_map entries of the groups of one grouped metric.
GroupDetails(metric_key, rows, group_by) ==
    [lookup \in {_metric_key(metric_key, g) : g \in GroupsOf(rows, group_by)} |->
        LET g == CHOOSE g \in GroupsOf(rows, group_by) : _metric_key(metric_key, g) = lookup
            subset == _group_subset(rows, group_by, g)
        IN  SortedHashes({subset[i].event_hash : i \in 1..Len(subset)})]

\* The keys of all_metrics, in the order of the dict.
AllMetricKeys ==
    <<"revenue_cents", "orders_count", "shipment_qty", "cogs_cents", "gross_profit_cents">>

\* compute_disclosure without the filter of line 548: every metric is kept.
compute_metrics_unfiltered(all_metrics, policy) ==
    [i \in 1..Len(AllMetricKeys) |->
        [metric_key |-> AllMetricKeys[i], value |-> all_metrics[AllMetricKeys[i]]]]

\* metrics = {k: int(v) for k, v in all_metrics.items() if k in policy.allowed_metrics}
compute_metrics(all_metrics, policy) ==
    LET kept == SelectSeq(AllMetricKeys, LAMBDA k : k \in policy.allowed_metrics)
    IN  [i \in 1..Len(kept) |-> [metric_key |-> kept[i], value |-> all_metrics[kept[i]]]]

\* The dimensions of group_by the policy does not allow, lines 555-556.
\* Mutant: none is taken to be forbidden.
forbidden_group_by_none(group_by, policy) == <<>>

forbidden_group_by(group_by, policy) ==
    SelectSeq(group_by, LAMBDA g : g \notin policy.allowed_group_by)

\* compute_disclosure(events, policy, period_start, period_end, group_by,
\* pnl_report): the metrics in the order of the dict, the grouped metrics in
\* the order they are appended, the detail_event_map; or the ValueError of a
\* group_by the policy does not allow.
compute_disclosure(events, policy, period_start, period_end, group_by, pnl_report) ==
    LET scoped_events == _filter_period(events, period_start, period_end)
        order_meta == OrderMeta(scoped_events)
        lines == _order_line_rows(scoped_events)
        payments == _payment_rows(scoped_events)
        shipments == _shipment_rows(scoped_events, order_meta)
        revenue == SumSeq([i \in 1..Len(payments) |-> payments[i].amount])
        all_metrics ==
            [revenue_cents |-> revenue,
             orders_count |-> Cardinality({lines[i].order_id : i \in 1..Len(lines)}),
             shipment_qty |-> SumSeq([i \in 1..Len(shipments) |-> shipments[i].value]),
             cogs_cents |-> pnl_report.cogs,
             gross_profit_cents |-> revenue - pnl_report.cogs]
        metrics == compute_metrics(all_metrics, policy)
        forbidden == forbidden_group_by(group_by, policy)
        with_shipments == shipments # <<>> /\ "shipment_qty" \in policy.allowed_metrics
        grouped ==
            IF group_by = <<>> THEN <<>>
            ELSE (IF lines = <<>> THEN <<>>
                  ELSE GroupedSums("revenue_cents", lines, group_by, GroupsOf(lines, group_by)))
                 \o (IF ~with_shipments THEN <<>>
                     ELSE GroupedSums("shipment_qty", shipments, group_by,
                                      GroupsOf(shipments, group_by)))
        grouped_details ==
            IF group_by = <<>> THEN EmptyDict
            ELSE (IF with_shipments THEN GroupDetails("shipment_qty", shipments, group_by)
                  ELSE EmptyDict)
                 @@ (IF lines = <<>> THEN EmptyDict
                     ELSE GroupDetails("revenue_cents", lines, group_by))
        scalar_details ==
            [lookup \in {_metric_key(metrics[i].metric_key, EmptyDict) : i \in 1..Len(metrics)} |->
                SortedHashes({scoped_events[i].event_hash : i \in 1..Len(scoped_events)})]
    IN  IF group_by # <<>> /\ forbidden # <<>>
        THEN [error |-> "ValueError", detail |-> "group_by not allowed by policy",
              metrics |-> <<>>, grouped_metrics |-> <<>>, detail_event_map |-> EmptyDict]
        ELSE [error |-> "", detail |-> "",
              metrics |-> metrics,
              grouped_metrics |->
                  SelectSeq(grouped, LAMBDA gm : gm.metric_key \in policy.allowed_metrics),
              detail_event_map |-> grouped_details @@ scalar_details]

\* _apply_redaction: rows with a sku in their group are dropped unless the
\* policy allows sku; supplier_id is taken out of the group when hidden.
_apply_redaction(grouped_metrics, policy_id) ==
    LET policy == get_policy(policy_id)[1]
        kept == SelectSeq(grouped_metrics,
                          LAMBDA row : policy.redaction.allow_sku \/ "sku" \notin DOMAIN row.group)
    IN  [i \in 1..Len(kept) |->
            [kept[i] EXCEPT
                !.group = IF policy.redaction.hide_supplier_id
                          THEN [k \in (DOMAIN @) \ {"supplier_id"} |-> @[k]] ELSE @]]


(***************************************************************************)
(* build_commitments (src/app/disclosure/commitment.py).  A leaf payload   *)
(* carries detail_root as an Optional: None where the key is absent.       *)
(***************************************************************************)
hash_leaf_payload(payload) == <<"sha256", canonical_json(payload)>>

LeafPayload(metric_key, group, period, value, policy_id, policy_hash_hex) ==
    [metric_key |-> metric_key, group |-> group, period |-> period, value |-> value,
     policy_id |-> policy_id, policy_hash |-> policy_hash_hex, detail_root |-> None]

\* _sort_key with the metric key alone.
_sort_key_by_metric(payload) ==
    <<MetricRank(payload.metric_key), 0, payload.period.start, payload.period.end>>

\* _sort_key: the texts of the metric key and of the canonical group by
\* their place in the order of texts, then the bounds of the period.
_sort_key(payload) ==
    <<MetricRank(payload.metric_key), GroupRank(payload.group), payload.period.start,
      payload.period.end>>

\* The order of Python tuples.
RECURSIVE TupleLess(_, _)
TupleLess(a, b) ==
    IF a = <<>> \/ b = <<>> THEN a = <<>> /\ b # <<>>
    ELSE Head(a) < Head(b) \/ (Head(a) = Head(b) /\ TupleLess(Tail(a), Tail(b)))

\* base_leafs left in the order they were appended.
SortLeafs_as_produced(base_leafs) == base_leafs

\* base_leafs.sort(key=_sort_key): the stable sort, by insertion of each leaf
\* behind the leaves whose key is not greater.
RECURSIVE SortLeafs(_)
SortLeafs(base_leafs) ==
    IF base_leafs = <<>> THEN <<>>
    ELSE LET sorted == SortLeafs(SubSeq(base_leafs, 1, Len(base_leafs) - 1))
             leaf == base_leafs[Len(base_leafs)]
             n == Cardinality({i \in 1..Len(sorted) :
                                  ~TupleLess(_sort_key(leaf), _sort_key(sorted[i]))})
         IN  SubSeq(sorted, 1, n) \o <<leaf>> \o SubSeq(sorted, n + 1, Len(sorted))

\* The two loops that fill base_leafs: the metrics, then the grouped rows.
BaseLeafs(metrics, grouped_metrics, policy_id, policy_hash_hex, period) ==
    [i \in 1..Len(metrics) |->
        LeafPayload(metrics[i].metric_key, EmptyDict, period, metrics[i].value,
                    policy_id, policy_hash_hex)]
    \o [i \in 1..Len(grouped_metrics) |->
        LeafPayload(grouped_metrics[i].metric_key, grouped_metrics[i].group, period,
                    grouped_metrics[i].value, policy_id, policy_hash_hex)]

LookupOf(payload) == proof_lookup_key(payload.metric_key, payload.group)

\* The detail_index entry of a leaf: the tree over its sorted event hashes.
DetailOf(payload, detail_event_map) ==
    LET detail_hashes ==
            SortedHashes(SeqToSet(Get(detail_event_map, LookupOf(payload), <<>>)))
        detail_tree == MerkleTree(detail_hashes)
    IN  [detail_root |-> root(detail_tree),
         event_hashes |-> detail_hashes,
         event_proofs |-> [h \in SeqToSet(detail_hashes) |->
                              proof(detail_tree,
                                    (CHOOSE i \in 1..Len(detail_hashes) :
                                        detail_hashes[i] = h) - 1).nodes]]

\* The leaves after the loop of selective_disclosure_ready.
WithDetail(base_leafs, detail_event_map) ==
    <<>> \o
    [i \in 1..Len(base_leafs) |->
        [base_leafs[i] EXCEPT
            !.detail_root = Some(DetailOf(base_leafs[i], detail_event_map).detail_root)]]

\* The place of the last leaf with a lookup key: a later leaf overwrites the
\* dict entry of an earlier one.
LastWith(base_leafs, lookup) ==
    CHOOSE i \in 1..Len(base_leafs) :
        /\ LookupOf(base_leafs[i]) = lookup
        /\ \A j \in (i + 1)..Len(base_leafs) : LookupOf(base_leafs[j]) # lookup

Lookups(base_leafs) == {LookupOf(base_leafs[i]) : i \in 1..Len(base_leafs)}

DetailIndex(base_leafs, detail_event_map) ==
    [lookup \in Lookups(base_leafs) |->
        DetailOf(base_leafs[LastWith(base_leafs, lookup)], detail_event_map)]

\* The loop that fills proof_index, position counted from 0.
ProofIndex(base_leafs, tree) ==
    [lookup \in Lookups(base_leafs) |->
        [leaf_hash |-> tree.leaf_hashes[LastWith(base_leafs, lookup)],
         leaf_payload |-> base_leafs[LastWith(base_leafs, lookup)],
         proof |-> proof(tree, LastWith(base_leafs, lookup) - 1).nodes,
         root_summary |-> root(tree),
         position |-> LastWith(base_leafs, lookup) - 1]]

\* sorted(detail_index.keys()): the order of the texts metric|group.
RECURSIVE SortedLookups(_)
SortedLookups(lookups) ==
    IF lookups = {} THEN <<>>
    ELSE LET key(l) == <<MetricRank(l[1]), GroupRank(l[2][2])>>
             first == CHOOSE l \in lookups :
                          \A o \in lookups \ {l} : TupleLess(key(l), key(o))
         IN  <<first>> \o SortedLookups(lookups \ {first})

\* root_details: the root over the detail roots, None without detail_index.
RootDetails(detail_index) ==
    IF DOMAIN detail_index = {} THEN None
    ELSE LET lookups == SortedLookups(DOMAIN detail_index)
         IN  Some(root(MerkleTree([i \in 1..Len(lookups) |->
                      hash_leaf_payload([lookup |-> lookups[i],
                                         detail_root |-> detail_index[lookups[i]].detail_root])])))

CommitmentResult(root_summary, root_details, leaf_payloads, proof_index, detail_index) ==
    [root_summary |-> root_summary, root_details |-> root_details,
     leaf_payloads |-> leaf_payloads, proof_index |-> proof_index,
     detail_index |-> detail_index]

\* build_commitments from the tree on: lines 93-120.
Committed(base_leafs, tree, detail_index) ==
    CommitmentResult(root(tree), RootDetails(detail_index), base_leafs,
                     ProofIndex(base_leafs, tree), detail_index)

LeafHashesOf(base_leafs) == <<>> \o [i \in 1..Len(base_leafs) |-> hash_leaf_payload(base_leafs[i])]

\* Mutant: the leaves are hashed as they were sorted, without detail_root.
CommittedLeafs_undetailed(sorted, proof_level, detail_event_map) == sorted

\* The leaves once sorted and, under selective_disclosure_ready, detailed.
CommittedLeafs(sorted, proof_level, detail_event_map) ==
    IF proof_level = "selective_disclosure_ready" THEN WithDetail(sorted, detail_event_map)
    ELSE sorted

build_commitments(metrics, grouped_metrics, policy_id, policy_hash_hex, period, proof_level, detail_event_map) ==
    LET sorted == SortLeafs(BaseLeafs(metrics, grouped_metrics, policy_id, policy_hash_hex, period))
        base_leafs == CommittedLeafs(sorted, proof_level, detail_event_map)
    IN  Committed(base_leafs, MerkleTree(LeafHashesOf(base_leafs)),
                  IF proof_level = "selective_disclosure_ready"
                  THEN DetailIndex(sorted, detail_event_map) ELSE EmptyDict)


(***************************************************************************)
(* Two disclosure computations over one ledger in one session, as          *)
(* test_replay_consistency runs them (SpecCommit): the events are          *)
(* appended, then the read models are rebuilt, the P&L, the disclosure and *)
(* the commitments computed, and all of it once more.                      *)
(***************************************************************************)
MaxCommitEvents == 3

DisclosedOrderPayload(order_id, channel, qty, unit_price) ==
    [order_id |-> order_id, customer_ref |-> "C1",
     items |-> << [sku |-> "tomato", qty |-> qty, unit_price |-> unit_price] >>,
     channel |-> channel, region |-> Some("east")]

\* The events of the replay test, with an order of a second channel.
CommitRequests ==
    {EventCreateRequest("GoodsReceived", "agent",
                        GoodsReceivedPayload("B1", 2, "2026-01-20", Some(200)), EmptyDict, Some(1)),
     EventCreateRequest("OrderPlaced", "agent",
                        DisclosedOrderPayload("O1", "online", 1, 500), EmptyDict, Some(1)),
     EventCreateRequest("OrderPlaced", "agent",
                        DisclosedOrderPayload("O2", "offline", 2, 300), EmptyDict, Some(1)),
     EventCreateRequest("PaymentCaptured", "agent", PaymentPayload("O1", 500), EmptyDict, Some(1)),
     EventCreateRequest("ShipmentDispatched", "agent", ShipmentPayload("O1", 1), EmptyDict, Some(1))}

\* The period of the events and a later one.
Periods == {[start |-> 0, end |-> 2], [start |-> 2, end |-> 4]}

\* None, a dimension every policy allows, one the investor and the auditor
\* are allowed, and one no policy allows.
GroupBys == {<<>>, <<"channel">>, <<"sku">>, <<"channel", "customer_id">>}

\* publish_disclosure_run, lines 87-103: the redaction and the commitments,
\* the rows handed to build_commitments as metrics and grouped.
PublishedCommitments(policy, period, computation, metrics, grouped) ==
    build_commitments(metrics, grouped, policy.policy_id, disclosure_policy_hash(policy),
                      period, policy.proof_level, computation.detail_event_map)

\* publish_disclosure_run, lines 76-85, after the rebuild returned costs.
Computed(rows, policy, period, group_by, costs) ==
    compute_disclosure(rows, policy, period.start, period.end, group_by,
                       generate_pnl(_filter_period(rows, period.start, period.end), costs))

\* The orders in which a caller may hand over the rows it produced.
Reverse(seq) == [i \in 1..Len(seq) |-> seq[Len(seq) + 1 - i]]

Reorderings(seq) == {seq, Reverse(seq)}

AppendCommitRequest ==
    /\ commitments.op = "none"
    /\ Len(ledger) < MaxCommitEvents
    /\ \E request \in CommitRequests :
          StoreAppend(request, load_role_key("agent"), FreshUuid(ledger), 1)

\* What a run leaves in the session: the read models as the rebuild left
\* them; an exception leaves the block of session_scope.
Rebuilt(done) ==
    /\ orders_view' = done.orders_view
    /\ new_orders' = done.new_orders
    /\ inventory_view' = done.inventory_view
    /\ new_lots' = done.new_lots
    /\ failed' = (done.error # "")
    /\ result' = Outcome("disclose", IF done.error = "" THEN "ok" ELSE "error", done.error, "")
    /\ UNCHANGED <<ledger, committed, hashed, ConcIdle, RevealIdle, replay, aggregate, merkle,
                   DisclosureIdle>>

\* The first run: rebuild_all_read_models, generate_pnl, compute_disclosure,
\* the redaction and build_commitments.
Disclose ==
    /\ ~failed
    /\ commitments.op = "none"
    /\ \E policy_id \in DOMAIN DEFAULT_POLICIES, period \in Periods, group_by \in GroupBys :
       \E done \in {rebuild_all_read_models(
                        Session(orders_view, new_orders, inventory_view, new_lots), ledger)} :
       \E computation \in {Computed(ledger, DEFAULT_POLICIES[policy_id], period, group_by,
                                    done.costs)} :
       \E grouped \in {_apply_redaction(computation.grouped_metrics, policy_id)} :
          /\ Rebuilt(done)
          /\ commitments' =
                IF done.error # "" \/ computation.error # ""
                THEN [commitments EXCEPT
                         !.op = "failed",
                         !.error = IF done.error # "" THEN done.error ELSE computation.error,
                         !.policy_id = policy_id, !.period = period, !.group_by = group_by]
                ELSE [commitments EXCEPT
                         !.op = "first", !.policy_id = policy_id, !.period = period,
                         !.group_by = group_by,
                         !.metrics = computation.metrics,
                         !.grouped_metrics = grouped,
                         !.first = PublishedCommitments(DEFAULT_POLICIES[policy_id], period,
                                                        computation, computation.metrics,
                                                        grouped)]

\* The second run over the same ledger, policy, period and group_by, in the
\* session as the first run left it; its rows reach build_commitments in the
\* order they were produced or in the reverse order.
DiscloseAgain ==
    /\ ~failed
    /\ commitments.op = "first"
    /\ \E done \in {rebuild_all_read_models(
                        Session(orders_view, new_orders, inventory_view, new_lots), ledger)} :
       \E computation \in {Computed(ledger, DEFAULT_POLICIES[commitments.policy_id],
                                    commitments.period, commitments.group_by, done.costs)} :
       \E grouped \in Reorderings(_apply_redaction(computation.grouped_metrics,
                                                   commitments.policy_id)) :
       \E metrics \in Reorderings(computation.metrics) :
          /\ Rebuilt(done)
          /\ commitments' =
                IF done.error # "" \/ computation.error # ""
                THEN [commitments EXCEPT
                         !.op = "again_failed",
                         !.error = IF done.error # "" THEN done.error ELSE computation.error]
                ELSE [commitments EXCEPT
                         !.op = "again",
                         !.metrics_again = metrics,
                         !.grouped_again = grouped,
                         !.second = PublishedCommitments(
                                        DEFAULT_POLICIES[commitments.policy_id],
                                        commitments.period, computation, metrics, grouped)]

NextCommit == AppendCommitRequest \/ Disclose \/ DiscloseAgain

SpecCommit == Init /\ [][NextCommit]_vars


\* The commitments the runs made so far.
Results ==
    IF commitments.op = "first" THEN {commitments.first}
    ELSE IF commitments.op = "again" THEN {commitments.first, commitments.second}
    ELSE {}

\* The sort key the claim names, of a committed leaf.
LeafOrder(leaf) ==
    <<MetricRank(leaf.metric_key), GroupRank(leaf.group), leaf.period.start, leaf.period.end>>

\* C21: in every disclosure built by build_commitments the leaves are in the
\* order of (metric_key, canonical(group), period.start, period.end),
\* root_summary is the Merkle root over the hashes of the leaves in that
\* order, proof_index has one entry per committed leaf, and the proof of
\* each entry verifies its leaf_hash, the hash of its leaf_payload, against
\* root_summary.
C21_RootOverSortedLeaves ==
    \A r \in Results :
        /\ \A i, j \in 1..Len(r.leaf_payloads) :
              i < j => TupleLess(LeafOrder(r.leaf_payloads[i]), LeafOrder(r.leaf_payloads[j]))
        /\ r.root_summary = root(MerkleTree([i \in 1..Len(r.leaf_payloads) |->
                                                hash_leaf_payload(r.leaf_payloads[i])]))
        /\ Cardinality(DOMAIN r.proof_index) = Len(r.leaf_payloads)
        /\ \A lookup \in DOMAIN r.proof_index :
              /\ r.proof_index[lookup].leaf_payload \in SeqToSet(r.leaf_payloads)
              /\ LookupOf(r.proof_index[lookup].leaf_payload) = lookup
              /\ r.proof_index[lookup].leaf_hash =
                    hash_leaf_payload(r.proof_index[lookup].leaf_payload)
              /\ verify_proof(r.proof_index[lookup].leaf_hash, r.proof_index[lookup].proof,
                              r.root_summary)

\* A disclosure of scalar leaves and of grouped leaves of two channels: the
\* scalar leaf of a metric is appended before its grouped leaves and sorted
\* behind them.
C21_Witness ==
    /\ commitments.op = "first"
    /\ Len(commitments.first.leaf_payloads) >= 5
    /\ \E i, j \in 1..Len(commitments.grouped_metrics) :
          /\ commitments.grouped_metrics[i].group = ("channel" :> Some("online"))
          /\ commitments.grouped_metrics[j].group = ("channel" :> Some("offline"))
          /\ commitments.grouped_metrics[i].metric_key = commitments.grouped_metrics[j].metric_key
    /\ \A lookup \in DOMAIN commitments.first.proof_index :
          Len(commitments.first.proof_index[lookup].proof) >= 2

\* C22: a second run of the rebuild, the P&L, compute_disclosure and
\* build_commitments over the same ledger, policy, period and group_by gives
\* the metrics and the root_summary of the first, in whatever order its
\* metrics and grouped rows were produced.
C22_SameRootOnReplay ==
    commitments.op = "again" =>
        /\ SeqToSet(commitments.metrics_again) = SeqToSet(commitments.metrics)
        /\ Len(commitments.metrics_again) = Len(commitments.metrics)
        /\ commitments.second.root_summary = commitments.first.root_summary

\* A second run over a ledger with orders, whose metrics and grouped rows
\* were produced in another order than those of the first.
C22_Witness ==
    /\ commitments.op = "again"
    /\ Len(ledger) >= 2
    /\ commitments.metrics_again # commitments.metrics
    /\ commitments.grouped_again # commitments.grouped_metrics
    /\ Len(commitments.grouped_again) >= 2

\* C26: every metric key of a disclosure's scalar metrics, grouped metrics
\* and committed leaves is one of the policy's allowed_metrics, and under a
\* policy with allow_sku false no committed leaf has sku in its group.
C26_OnlyAllowedMetrics ==
    commitments.op \in {"first", "again"} =>
        LET policy == DEFAULT_POLICIES[commitments.policy_id]
        IN  /\ \A i \in 1..Len(commitments.metrics) :
                  commitments.metrics[i].metric_key \in policy.allowed_metrics
            /\ \A i \in 1..Len(commitments.grouped_metrics) :
                  commitments.grouped_metrics[i].metric_key \in policy.allowed_metrics
            /\ \A r \in Results : \A i \in 1..Len(r.leaf_payloads) :
                  /\ r.leaf_payloads[i].metric_key \in policy.allowed_metrics
                  /\ ~policy.redaction.allow_sku => "sku" \notin DOMAIN r.leaf_payloads[i].group

\* A disclosure under the public policy, which allows neither the cost of
\* goods sold nor sku, over a ledger with a shipment that has a cost.
C26_Witness ==
    /\ commitments.op = "first"
    /\ commitments.policy_id = "policy_public_v1"
    /\ commitments.period.start = 0
    /\ \E i \in 1..Len(ledger) : ledger[i].event_type = "ShipmentDispatched"
    /\ \E i \in 1..Len(ledger) : ledger[i].event_type = "GoodsReceived"
    /\ Len(commitments.grouped_metrics) >= 1
    /\ Len(commitments.first.leaf_payloads) >= 4


(***************************************************************************)
(* Publishing (SpecPublish): the HTTP route, the orchestrator's disclosure *)
(* step and the disclosure skill call publish_disclosure_run inside        *)
(* session_scope, which commits when the request returns and rolls back    *)
(* when it raises.  A request is followed through its steps: the           *)
(* computation and the commitments, the anchoring, the rows and the        *)
(* DisclosurePublished event, the end of the session.  Time is counted in  *)
(* days; the business events occur on day 1.  A write that reaches the     *)
(* backend stays in the external anchor store, which no session holds.     *)
(* The settings and the caller's identity are drawn where the code reads   *)
(* them.                                                                   *)
(***************************************************************************)
MaxPublishEvents == 2

MaxPublishes == 1

MaxDays == 3

\* The business events, in the order they are appended.
PublishRequests ==
    << EventCreateRequest("OrderPlaced", "agent",
                          DisclosedOrderPayload("O1", "online", 1, 500), EmptyDict, Some(1)),
       EventCreateRequest("OrderPlaced", "agent",
                          DisclosedOrderPayload("O2", "offline", 2, 300), EmptyDict, Some(1)),
       EventCreateRequest("PaymentCaptured", "agent", PaymentPayload("O1", 500), EmptyDict,
                          Some(1)) >>

BusinessEvents(rows) == SelectSeq(rows, LAMBDA e : e.event_type # "DisclosurePublished")

\* str(uuid4()) of the n-th publish that draws one.
DrawnDisclosureIds == <<"D1", "D2", "D3">>

\* The policies a caller names: two of the catalog and one it does not have.
PublishPolicyIds == {"policy_public_v1", "policy_investor_v1", "policy_unknown_v1"}

PublishPeriods == {[start |-> 0, end |-> 2]}

\* A dimension every policy allows and one only the investor is allowed.
PublishGroupBys == {<<"channel">>, <<"sku">>}

\* The caller: the agent, or a human (whose events the agent key cannot sign).
PublishActors == {"agent", "human"}

DisclosureTables ==
    <<disclosure_runs, disclosure_metrics, disclosure_grouped_metrics, anchor_records>>

\* What no publish step touches.
PublishRest ==
    <<ConcIdle, RevealIdle, replay, aggregate, merkle, commitments, orchestrator, skill>>

\* AnchorWriteResult, without the tx_id the backend returns.
AnchorWriteResult(key, value, backend) == [key |-> key, value |-> value, backend |-> backend]

\* AnchoringService._persist: the local mirror of a write, inserted or
\* updated under its key, and flushed.  Mutant: the mirror records the
\* backend of the settings whatever client wrote.
_persist_configured_backend(records, written) ==
    (written.key :> [value_json |-> written.value, backend |-> "immudb_py"]) @@ records

_persist(records, written) ==
    (written.key :> [value_json |-> written.value, backend |-> written.backend]) @@ records

\* AnchoringService._safe_set before _persist: client is the backend of
\* self.client, fails says that client.set raises.  Mutant: a failed write
\* falls back to the fake client in strict mode too.
_safe_set_never_raising(client, key, value, anchor_strict, fails) ==
    IF ~fails
    THEN [error |-> "", client |-> client, written |-> AnchorWriteResult(key, value, client)]
    ELSE [error |-> "", client |-> "fake", written |-> AnchorWriteResult(key, value, "fake")]

_safe_set(client, key, value, anchor_strict, fails) ==
    IF ~fails
    THEN [error |-> "", client |-> client, written |-> AnchorWriteResult(key, value, client)]
    ELSE IF anchor_strict /\ client # "fake"
    THEN [error |-> "RuntimeError", client |-> client,
          written |-> AnchorWriteResult(key, value, client)]
    ELSE [error |-> "", client |-> "fake", written |-> AnchorWriteResult(key, value, "fake")]

\* The keys anchor_disclosure writes, in its order, with their values.
AnchorWrites(disclosure_id, policy_id, period, root_summary, root_details, sig_hash) ==
    << [name |-> "disclosure", key |-> <<"disclosure", disclosure_id, 0>>,
        value |-> [disclosure_id |-> disclosure_id, policy_id |-> policy_id,
                   period |-> period, root_summary |-> root_summary,
                   root_details |-> root_details, statement_sig_hash |-> sig_hash]],
       [name |-> "root_summary", key |-> <<"root:summary", policy_id, period.start>>,
        value |-> [root_summary |-> root_summary]] >>
    \o (IF root_details = None THEN <<>>
        ELSE << [name |-> "root_details", key |-> <<"root:details", policy_id, period.start>>,
                 value |-> [root_details |-> root_details]] >>)

\* The writes of anchor_disclosure from the k-th on; the fail_at-th write
\* fails if it goes to the backend of the settings (the fake client never
\* fails).
RECURSIVE AnchorFrom(_, _, _, _, _, _, _)
AnchorFrom(writes, k, client, anchor_strict, fail_at, records, refs) ==
    IF k > Len(writes) THEN [error |-> "", records |-> records, refs |-> refs]
    ELSE LET out == _safe_set(client, writes[k].key, writes[k].value, anchor_strict,
                              k = fail_at /\ client # "fake")
         IN  IF out.error # "" THEN [error |-> out.error, records |-> records, refs |-> refs]
             ELSE AnchorFrom(writes, k + 1, out.client, anchor_strict, fail_at,
                             _persist(records, out.written),
                             (writes[k].name :> out.written) @@ refs)

anchor_disclosure(records, writes, client, anchor_strict, fail_at) ==
    AnchorFrom(writes, 1, client, anchor_strict, fail_at, records, EmptyDict)

\* client.set of the immudb clients: the store after the writes that
\* returned from the backend, the fake client's writes left out.
VerifiedSet(store, refs) ==
    [key \in {refs[n].key : n \in {m \in DOMAIN refs : refs[m].backend # "fake"}} |->
        refs[CHOOSE n \in DOMAIN refs : refs[n].key = key].value] @@ store

\* src/app/reconciliation/rules.py.  A detail is the list of the texts and
\* numbers its f-string joins.
ReconciliationResult(rule, passed, detail) ==
    [rule |-> rule, passed |-> passed, detail |-> detail]

\* Mutant: only the first PaymentCaptured event is counted.
check_payment_equals_revenue_first_payment(events, disclosed_revenue_cents) ==
    LET captured == EventsOfType(events, "PaymentCaptured")
        payments == IF captured = <<>> THEN 0 ELSE captured[1].payload.amount
    IN  ReconciliationResult("payment_equals_revenue", payments = disclosed_revenue_cents,
                             <<"payments", payments, "disclosed_revenue",
                               disclosed_revenue_cents>>)

check_payment_equals_revenue(events, disclosed_revenue_cents) ==
    LET captured == EventsOfType(events, "PaymentCaptured")
        payments == SumSeq([i \in 1..Len(captured) |-> captured[i].payload.amount])
    IN  ReconciliationResult("payment_equals_revenue", payments = disclosed_revenue_cents,
                             <<"payments", payments, "disclosed_revenue",
                               disclosed_revenue_cents>>)

\* What the item loop of an event adds to the balances, per item.
BalanceDeltas(event) ==
    CASE event.event_type = "GoodsReceived" ->
           IF ~event.payload.qc_passed THEN <<>>
           ELSE [i \in 1..Len(event.payload.items) |->
                    [sku |-> event.payload.items[i].sku, delta |-> event.payload.items[i].qty]]
      [] event.event_type = "ShipmentDispatched" ->
           [i \in 1..Len(event.payload.items) |->
               [sku |-> event.payload.items[i].sku, delta |-> 0 - event.payload.items[i].qty]]
      [] event.event_type = "InventoryAdjusted" ->
           [i \in 1..Len(event.payload.items) |->
               [sku |-> event.payload.items[i].sku, delta |-> event.payload.items[i].qty_delta]]
      [] OTHER -> <<>>

\* The item loop of one event from its i-th item: the balances after it,
\* and the sku whose balance went below zero where the loop returns (the
\* loop of GoodsReceived does not look).
RECURSIVE BalanceItems(_, _, _, _)
BalanceItems(balances, deltas, i, looks) ==
    IF i > Len(deltas) THEN [balances |-> balances, negative |-> None]
    ELSE LET after == (deltas[i].sku :> Get(balances, deltas[i].sku, 0) + deltas[i].delta)
                          @@ balances
         IN  IF looks /\ after[deltas[i].sku] < 0
             THEN [balances |-> after, negative |-> Some(deltas[i].sku)]
             ELSE BalanceItems(after, deltas, i + 1, looks)

\* The loop of check_inventory_non_negative from the i-th event.
RECURSIVE BalancesFrom(_, _, _)
BalancesFrom(balances, events, i) ==
    IF i > Len(events) THEN ReconciliationResult("inventory_non_negative", TRUE, <<"ok">>)
    ELSE LET looped == BalanceItems(balances, BalanceDeltas(events[i]), 1,
                                    events[i].event_type # "GoodsReceived")
         IN  IF looped.negative # None
             THEN ReconciliationResult(
                      "inventory_non_negative", FALSE,
                      <<IF events[i].event_type = "ShipmentDispatched"
                        THEN "negative inventory for sku"
                        ELSE "negative inventory after adjustment sku", looped.negative[1]>>)
             ELSE BalancesFrom(looped.balances, events, i + 1)

check_inventory_non_negative(events) == BalancesFrom(EmptyDict, events, 1)

check_refund_posting_exists(pnl_report, events) ==
    LET refund_events == EventsOfType(events, "RefundIssued")
        refund_total == SumSeq([i \in 1..Len(refund_events) |->
                                   refund_events[i].payload.amount])
    IN  IF refund_events = <<>>
        THEN ReconciliationResult("refund_posting_exists", TRUE, <<"no refunds">>)
        ELSE ReconciliationResult("refund_posting_exists",
                                  refund_total = Get(pnl_report, "refunds", 0),
                                  <<"refund_events", refund_total, "posted_refunds",
                                    Get(pnl_report, "refunds", 0)>>)

run_minimum_reconciliation(events, disclosed_revenue_cents, pnl_report) ==
    << check_payment_equals_revenue(events, disclosed_revenue_cents),
       check_inventory_non_negative(events),
       check_refund_posting_exists(pnl_report, events) >>

\* computation.metrics.get(key, default)
MetricOf(metrics, key, default) ==
    IF \E i \in 1..Len(metrics) : metrics[i].metric_key = key
    THEN metrics[CHOOSE i \in 1..Len(metrics) : metrics[i].metric_key = key].value
    ELSE default

\* publish_disclosure_run, lines 118-123: the reconciliation the statement
\* is given, over the events of the period.
Reconciled(rows, period, metrics, costs) ==
    run_minimum_reconciliation(_filter_period(rows, period.start, period.end),
                               MetricOf(metrics, "revenue_cents", 0),
                               generate_pnl(_filter_period(rows, period.start, period.end),
                                            costs))

build_statement(disclosure_id, policy, period, metrics, grouped_metrics, built) ==
    [disclosure_id |-> disclosure_id, policy_id |-> policy.policy_id,
     policy_hash |-> disclosure_policy_hash(policy), period |-> period,
     metrics |-> metrics, grouped_metrics |-> grouped_metrics,
     commitments |-> [root_summary |-> built.root_summary,
                      root_details |-> built.root_details,
                      proof_level |-> policy.proof_level,
                      leaf_payloads |-> built.leaf_payloads]]

\* sign_statement: the hash of the signature with the disclosure id.
sign_statement(statement, signer) ==
    <<"sha256", canonical_json([signature |-> sign_object(statement, signer),
                                statement |-> statement.disclosure_id])>>

\* The row of disclosure_runs, without the statement and its signature.
DisclosureRunModel(p, created_at) ==
    [disclosure_id |-> p.disclosure_id, policy_id |-> p.policy_id,
     policy_hash |-> disclosure_policy_hash(get_policy(p.policy_id)[1]),
     period_start |-> p.period.start, period_end |-> p.period.end,
     root_summary |-> p.commitments.root_summary,
     root_details |-> p.commitments.root_details,
     proof_index |-> p.commitments.proof_index,
     detail_index |-> p.commitments.detail_index,
     anchor_ref |-> p.anchor_ref, created_at |-> created_at]

\* The request of the DisclosurePublished event, lines 171-184.  Mutant:
\* the payload carries the root of the details.
DisclosurePublishedRequest_with_details_root(p, actor_type, sig_hash) ==
    [event_type |-> "DisclosurePublished",
     actor |-> [type |-> actor_type, id |-> ActorId(actor_type)],
     policy_id |-> p.policy_id,
     payload |-> [disclosure_id |-> p.disclosure_id, policy_id |-> p.policy_id,
                  period |-> p.period, metrics |-> p.metrics,
                  merkle_root |-> EMPTY_ROOT,
                  anchor_ref |-> p.anchor_ref, statement_sig_hash |-> sig_hash],
     tool_trace |-> EmptyDict,
     occurred_at |-> None]

DisclosurePublishedRequest(p, actor_type, sig_hash) ==
    [event_type |-> "DisclosurePublished",
     actor |-> [type |-> actor_type, id |-> ActorId(actor_type)],
     policy_id |-> p.policy_id,
     payload |-> [disclosure_id |-> p.disclosure_id, policy_id |-> p.policy_id,
                  period |-> p.period, metrics |-> p.metrics,
                  merkle_root |-> p.commitments.root_summary,
                  anchor_ref |-> p.anchor_ref, statement_sig_hash |-> sig_hash],
     tool_trace |-> EmptyDict,
     occurred_at |-> None]

SigHashOf(p) ==
    sign_statement(build_statement(p.disclosure_id, get_policy(p.policy_id)[1], p.period,
                                   p.metrics, p.grouped_metrics, p.commitments)
                       @@ [reconciliation |-> p.reconciliation],
                   load_role_key("agent"))

\* A business event is appended and committed, a request of its own.
AppendBusinessEvent ==
    /\ publish.pc = "idle"
    /\ Len(ledger) < MaxPublishEvents
    /\ Len(BusinessEvents(ledger)) < Len(PublishRequests)
    /\ \E out \in {append(hashed, PublishRequests[Len(BusinessEvents(ledger)) + 1],
                          load_role_key("agent"), _latest_event_hash(ledger),
                          FreshUuid(ledger), today)} :
          /\ out.status = "ok"
          /\ ledger' = Inserted(ledger, out.added)
          /\ hashed' = Hashed(hashed, out.hash_input)
          /\ committed' = [committed EXCEPT !.ledger = ledger', !.hashed = hashed']
          /\ result' = Outcome("append", "ok", "", "")
    /\ UNCHANGED <<orders_view, inventory_view, new_orders, new_lots, failed, DisclosureTables,
                   committed_disclosure, publish, immudb, today, PublishRest>>

\* The publish paths start on an empty database, on the day the requests
\* arrive.
InitPublish ==
    /\ InitLedger
    /\ InitElsewhere
    /\ today \in 2..MaxDays

\* The request is answered by an HTTPException before anything was done.
Answered(op, detail) ==
    /\ result' = Outcome(op, "error", "HTTPException", detail)
    /\ UNCHANGED <<SessionIdle, DisclosureTables, committed_disclosure, publish, immudb, today,
                   PublishRest>>

\* publish_disclosure_run raised at line 64: the policy is unknown.
UnknownPolicy(policy_id, period, group_by) ==
    /\ publish' = [publish EXCEPT !.pc = "raised",
                                  !.policy_id = policy_id, !.period = period,
                                  !.group_by = group_by,
                                  !.error = "KeyError", !.detail = "unknown policy_id"]
    /\ UNCHANGED <<SessionIdle, result, DisclosureTables, committed_disclosure, immudb, today,
                   PublishRest>>

\* publish_disclosure_run, lines 64-105, on the results of its calls.
Prepared(p, done, computation, grouped) ==
    /\ orders_view' = done.orders_view
    /\ new_orders' = done.new_orders
    /\ inventory_view' = done.inventory_view
    /\ new_lots' = done.new_lots
    /\ failed' = (done.error # "")
    /\ publish' =
          IF done.error # ""
          THEN [p EXCEPT !.pc = "raised", !.error = done.error, !.detail = "flush"]
          ELSE IF computation.error # ""
          THEN [p EXCEPT !.pc = "raised", !.error = computation.error,
                         !.detail = computation.detail]
          ELSE [p EXCEPT !.pc = "anchor",
                         !.metrics = computation.metrics,
                         !.grouped_metrics = grouped,
                         !.commitments =
                             PublishedCommitments(get_policy(p.policy_id)[1], p.period,
                                                  computation, computation.metrics, grouped),
                         !.disclosure_id = DrawnDisclosureIds[p.drawn + 1],
                         !.drawn = p.drawn + 1,
                         !.reconciliation =
                             Reconciled(ledger, p.period, computation.metrics, done.costs)]
    /\ UNCHANGED <<ledger, committed, hashed, result, DisclosureTables, committed_disclosure,
                   immudb, today, PublishRest>>

\* publish_disclosure_run is entered: the rebuild of the read models, the
\* P&L, compute_disclosure, the redaction, build_commitments and uuid4.
Entered(policy_id, period, group_by) ==
    IF get_policy(policy_id) = None
    THEN UnknownPolicy(policy_id, period, group_by)
    ELSE \E done \in {rebuild_all_read_models(
                          Session(orders_view, new_orders, inventory_view, new_lots), ledger)} :
         \E computation \in {Computed(ledger, get_policy(policy_id)[1], period, group_by,
                                      done.costs)} :
         \E grouped \in {_apply_redaction(computation.grouped_metrics, policy_id)} :
            Prepared([publish EXCEPT !.policy_id = policy_id, !.period = period,
                                     !.group_by = group_by],
                     done, computation, grouped)

\* A publish may start: the bounds leave room for its id and its event.
CanPublish ==
    /\ publish.pc = "idle"
    /\ ~failed
    /\ Len(ledger) < MaxPublishEvents
    /\ publish.drawn < MaxPublishes
    /\ publish.drawn < Len(DrawnDisclosureIds)

\* POST /disclosure/publish
PublishDisclosure ==
    /\ CanPublish
    /\ \E policy_id \in PublishPolicyIds, period \in PublishPeriods,
          group_by \in PublishGroupBys :
          IF get_policy(policy_id) = None
          THEN Answered("publish_disclosure", "404 unknown policy_id")
          ELSE IF period.end > today - get_policy(policy_id)[1].delay_days
          THEN Answered("publish_disclosure", "400 period too recent")
          ELSE Entered(policy_id, period, group_by)

\* The disclosure step of AgentOrchestrator.run, lines 263-280.
OrchestratorDisclose ==
    /\ CanPublish
    /\ \E policy_id \in PublishPolicyIds, period \in PublishPeriods,
          group_by \in PublishGroupBys :
          Entered(policy_id, period, group_by)

\* _day_window: yesterday.
_day_window(now) == [start |-> now - 1, end |-> now]

\* _adjust_for_delay: the window is moved back by its length while it ends
\* after the cutoff, at most 30 times.
RECURSIVE AdjustFrom(_, _, _)
AdjustFrom(period, cutoff, attempts) ==
    IF period.end > cutoff /\ attempts < 30
    THEN AdjustFrom([start |-> period.start - (period.end - period.start),
                     end |-> period.end - (period.end - period.start)], cutoff, attempts + 1)
    ELSE period

_adjust_for_delay(policy_id, period, now) ==
    AdjustFrom(period, now - get_policy(policy_id)[1].delay_days, 0)

\* The skill disclosure.run at day granularity.
SkillDisclosureRun ==
    /\ CanPublish
    /\ \E policy_id \in {"policy_public_v1", "policy_investor_v1"} :
          Entered(policy_id, _adjust_for_delay(policy_id, _day_window(today), today),
                  <<"channel">>)

\* AnchoringService(session).anchor_disclosure, lines 127-134, under the
\* settings anchor_mode = immudb_py and either anchor_strict: a write to the
\* backend may fail.  aborted keeps the ids whose anchoring met a failed
\* write in strict mode.
AnchorDisclosure ==
    /\ publish.pc = "anchor"
    /\ \E anchor_strict \in BOOLEAN :
       \E writes \in {AnchorWrites(publish.disclosure_id, publish.policy_id, publish.period,
                                   publish.commitments.root_summary,
                                   publish.commitments.root_details, SigHashOf(publish))} :
       \E fail_at \in 0..Len(writes) :
       \E out \in {anchor_disclosure(anchor_records, writes, "immudb_py", anchor_strict,
                                     fail_at)} :
          /\ anchor_records' = out.records
          /\ immudb' = VerifiedSet(immudb, out.refs)
          /\ publish' =
                IF out.error # ""
                THEN [publish EXCEPT !.pc = "raised", !.error = out.error,
                                     !.detail = "anchor write failed in strict mode",
                                     !.anchor_strict = anchor_strict,
                                     !.failed_write = fail_at,
                                     !.aborted = @ \cup {publish.disclosure_id}]
                ELSE [publish EXCEPT !.pc = "persist", !.anchor_ref = out.refs,
                                     !.anchor_strict = anchor_strict /\ fail_at # 0,
                                     !.failed_write = fail_at,
                                     !.aborted =
                                         IF anchor_strict /\ fail_at # 0
                                         THEN @ \cup {publish.disclosure_id} ELSE @]
    /\ UNCHANGED <<SessionIdle, result, disclosure_runs, disclosure_metrics,
                   disclosure_grouped_metrics, committed_disclosure, today, PublishRest>>

\* The rows of disclosure_metrics and disclosure_grouped_metrics of a run.
MetricRows(p) ==
    [i \in 1..Len(p.metrics) |->
        [disclosure_id |-> p.disclosure_id, metric_key |-> p.metrics[i].metric_key,
         value |-> p.metrics[i].value]]

GroupedMetricRows(p) ==
    [i \in 1..Len(p.grouped_metrics) |->
        [disclosure_id |-> p.disclosure_id, metric_key |-> p.grouped_metrics[i].metric_key,
         group_json |-> p.grouped_metrics[i].group, value |-> p.grouped_metrics[i].value]]

\* Lines 136-169: the run is added and flushed, its metric rows are added.
RunStored ==
    /\ orders_view' = FlushOrders(orders_view, new_orders)
    /\ inventory_view' = FlushLots(inventory_view, new_lots)
    /\ new_orders' = <<>>
    /\ new_lots' = <<>>
    /\ disclosure_runs' =
          (publish.disclosure_id :> DisclosureRunModel(publish, today)) @@ disclosure_runs
    /\ disclosure_metrics' =
          SelectSeq(disclosure_metrics, LAMBDA r : r.disclosure_id # publish.disclosure_id)
          \o MetricRows(publish)
    /\ disclosure_grouped_metrics' =
          SelectSeq(disclosure_grouped_metrics,
                    LAMBDA r : r.disclosure_id # publish.disclosure_id)
          \o GroupedMetricRows(publish)

\* Lines 136-185: the run and its metric rows, then LedgerStore.append of
\* the DisclosurePublished event, signed with the agent key.
PersistRun ==
    /\ publish.pc = "persist"
    /\ IF ~CanFlush(orders_view, inventory_view, new_orders, new_lots)
       THEN /\ failed' = TRUE
            /\ publish' = [publish EXCEPT !.pc = "raised", !.error = "IntegrityError",
                                          !.detail = "flush"]
            /\ UNCHANGED <<ledger, hashed, orders_view, inventory_view, new_orders, new_lots,
                           disclosure_runs, disclosure_metrics, disclosure_grouped_metrics>>
       ELSE \E actor_type \in (IF skill.pc = "entrypoint" THEN {skill.actor_type}
                                ELSE PublishActors) :
            \E out \in {append(hashed,
                               DisclosurePublishedRequest(publish, actor_type,
                                                          SigHashOf(publish)),
                               load_role_key("agent"), _latest_event_hash(ledger),
                               FreshUuid(ledger), today)} :
               /\ RunStored
               /\ IF out.status = "error"
                  THEN /\ publish' = [publish EXCEPT !.pc = "raised", !.error = out.error,
                                                     !.detail = out.detail]
                       /\ UNCHANGED <<ledger, hashed, failed>>
                  ELSE /\ ledger' = Inserted(ledger, out.added)
                       /\ hashed' = Hashed(hashed, out.hash_input)
                       /\ publish' = [publish EXCEPT !.pc = "done"]
                       /\ UNCHANGED failed
    /\ UNCHANGED <<committed, result, anchor_records, committed_disclosure, immudb, today, PublishRest>>

\* The request is over: what the next one starts with.
Over(p) ==
    [NoPublish EXCEPT !.drawn = p.drawn, !.aborted = p.aborted]

\* session_scope: the request returned, the session commits.
CommitPublish ==
    /\ publish.pc = "done"
    /\ committed' = Database
    /\ committed_disclosure' =
          [disclosure_runs |-> disclosure_runs, disclosure_metrics |-> disclosure_metrics,
           disclosure_grouped_metrics |-> disclosure_grouped_metrics,
           anchor_records |-> anchor_records]
    /\ result' = Outcome("publish_disclosure_run", "ok", "", "")
    /\ publish' = Over(publish)
    /\ UNCHANGED <<ledger, orders_view, inventory_view, new_orders, new_lots, failed, hashed,
                   DisclosureTables, immudb, today, PublishRest>>

\* session_scope: the request raised, the session rolls back.
RollbackPublish ==
    /\ publish.pc = "raised"
    /\ ledger' = committed.ledger
    /\ orders_view' = committed.orders_view
    /\ inventory_view' = committed.inventory_view
    /\ hashed' = committed.hashed
    /\ new_orders' = <<>>
    /\ new_lots' = <<>>
    /\ failed' = FALSE
    /\ disclosure_runs' = committed_disclosure.disclosure_runs
    /\ disclosure_metrics' = committed_disclosure.disclosure_metrics
    /\ disclosure_grouped_metrics' = committed_disclosure.disclosure_grouped_metrics
    /\ anchor_records' = committed_disclosure.anchor_records
    /\ result' = Outcome("publish_disclosure_run", "error", publish.error, "")
    /\ publish' = Over(publish)
    /\ UNCHANGED <<committed, committed_disclosure, immudb, today, PublishRest>>

\* What GET /disclosure/{id}/proof answers.
ProofAnswer(status, detail, disclosure_id, lookup, nodes) ==
    [op |-> "get_disclosure_proof", status |-> status,
     error |-> IF status = "ok" THEN "" ELSE "HTTPException", detail |-> detail,
     disclosure_id |-> disclosure_id, lookup |-> lookup, proof |-> nodes]

get_disclosure_proof(runs, disclosure_id, metric_key, group) ==
    IF disclosure_id \notin DOMAIN runs
    THEN ProofAnswer("error", "404 disclosure not found", disclosure_id,
                     proof_lookup_key(metric_key, group), <<>>)
    ELSE IF proof_lookup_key(metric_key, group) \notin DOMAIN runs[disclosure_id].proof_index
    THEN ProofAnswer("error", "404 proof not found for metric/group", disclosure_id,
                     proof_lookup_key(metric_key, group), <<>>)
    ELSE ProofAnswer("ok", "", disclosure_id, proof_lookup_key(metric_key, group),
                     runs[disclosure_id].proof_index[proof_lookup_key(metric_key, group)].proof)

\* GET /disclosure/{disclosure_id}/proof
GetDisclosureProof ==
    /\ publish.pc = "idle"
    /\ \E disclosure_id \in {"D1", "D9"}, metric_key \in {"revenue_cents", "cogs_cents"},
          group \in {EmptyDict, ("channel" :> Some("online"))} :
          result' = get_disclosure_proof(disclosure_runs, disclosure_id, metric_key, group)
    /\ UNCHANGED <<SessionIdle, DisclosureTables, committed_disclosure, publish, immudb, today,
                   PublishRest>>

NextPublish ==
    \/ AppendBusinessEvent
    \/ PublishDisclosure
    \/ OrchestratorDisclose
    \/ SkillDisclosureRun
    \/ AnchorDisclosure
    \/ PersistRun
    \/ CommitPublish
    \/ RollbackPublish

SpecPublish == InitPublish /\ [][NextPublish]_vars

\* POST /disclosure/publish under the root_only policy, as
\* test_proof_level_gate publishes.
PublishRootOnly ==
    /\ CanPublish
    /\ \E period \in PublishPeriods, group_by \in PublishGroupBys :
          IF period.end > today - get_policy("policy_public_root_only_v1")[1].delay_days
          THEN Answered("publish_disclosure", "400 period too recent")
          ELSE Entered("policy_public_root_only_v1", period, group_by)

\* The publish paths with the proof endpoint.
NextProof == NextPublish \/ PublishRootOnly \/ GetDisclosureProof

SpecProof == InitPublish /\ [][NextProof]_vars

\* C23: a proof request for a run published under a root_only policy is
\* denied with ProofLevelGated (HTTP 403) and returns no proof, whatever
\* metric and group it names.
C23_RootOnlyDeniesProof ==
    [][(/\ GetDisclosureProof
        /\ result'.disclosure_id \in DOMAIN disclosure_runs
        /\ get_policy(disclosure_runs[result'.disclosure_id].policy_id)[1].proof_level
               = "root_only")
       => (/\ result'.status = "error"
           /\ result'.detail = "403 ProofLevelGated"
           /\ result'.proof = <<>>)]_vars

\* C24: no disclosure run is persisted for a period that ends after the
\* cutoff of its policy, now - delay_days, on whatever path it was
\* published; a period ending at the cutoff may be persisted.
C24_NoRunPastTheCutoff ==
    \A id \in DOMAIN committed_disclosure.disclosure_runs :
        LET run == committed_disclosure.disclosure_runs[id]
        IN  run.period_end <= run.created_at - get_policy(run.policy_id)[1].delay_days

\* The request in progress names a dimension its policy does not allow.
ForbiddenGroupByRequested ==
    /\ publish.pc # "idle"
    /\ get_policy(publish.policy_id) # None
    /\ \E i \in 1..Len(publish.group_by) :
          publish.group_by[i] \notin get_policy(publish.policy_id)[1].allowed_group_by

\* C25: a publish whose group_by names a dimension outside
\* policy.allowed_group_by raises the group-by-not-allowed error before
\* anything is written: the session holds no run, metric row, anchor record
\* or DisclosurePublished event that was not committed before, and no stored
\* grouped row has a dimension its run's policy does not allow.
C25_ForbiddenGroupByLeavesNoTrace ==
    /\ ForbiddenGroupByRequested =>
        /\ publish.pc = "raised"
        /\ publish.error = "ValueError"
        /\ publish.detail = "group_by not allowed by policy"
        /\ publish.disclosure_id = ""
        /\ disclosure_runs = committed_disclosure.disclosure_runs
        /\ disclosure_metrics = committed_disclosure.disclosure_metrics
        /\ disclosure_grouped_metrics = committed_disclosure.disclosure_grouped_metrics
        /\ anchor_records = committed_disclosure.anchor_records
        /\ ledger = committed.ledger
    /\ \A i \in 1..Len(disclosure_grouped_metrics) :
          LET row == disclosure_grouped_metrics[i]
          IN  DOMAIN row.group_json \subseteq
                  get_policy(disclosure_runs[row.disclosure_id].policy_id)[1].allowed_group_by

\* A publish by sku under the public policy raised over a ledger that has
\* an order of the period.
C25_Witness ==
    /\ ForbiddenGroupByRequested
    /\ publish.pc = "raised"
    /\ publish.group_by = <<"sku">>
    /\ publish.policy_id = "policy_public_v1"
    /\ BusinessEvents(ledger) # <<>>

\* Nothing of disclosure id is in the tables or among the ledger rows.
NoTraceOf(id, tables, rows) ==
    /\ id \notin DOMAIN tables.disclosure_runs
    /\ \A i \in 1..Len(tables.disclosure_metrics) :
          tables.disclosure_metrics[i].disclosure_id # id
    /\ \A i \in 1..Len(tables.disclosure_grouped_metrics) :
          tables.disclosure_grouped_metrics[i].disclosure_id # id
    /\ <<"disclosure", id, 0>> \notin DOMAIN tables.anchor_records
    /\ \A i \in 1..Len(rows) :
          rows[i].event_type = "DisclosurePublished" => rows[i].payload.disclosure_id # id

\* The disclosure tables as the session sees them.
SessionDisclosures ==
    [disclosure_runs |-> disclosure_runs, disclosure_metrics |-> disclosure_metrics,
     disclosure_grouped_metrics |-> disclosure_grouped_metrics,
     anchor_records |-> anchor_records]

\* C27: in strict mode a failed write to the anchor backend makes the
\* anchoring call raise RuntimeError, the publish never reaches the run, and
\* once the request is over nothing of that disclosure is stored: no run, no
\* metric row, no local anchor record, no DisclosurePublished event.
C27_StrictAnchorFailureAborts ==
    /\ publish.pc \in {"persist", "done"} => publish.disclosure_id \notin publish.aborted
    /\ (publish.pc = "raised" /\ publish.disclosure_id \in publish.aborted) =>
          publish.error = "RuntimeError"
    /\ \A id \in publish.aborted :
          /\ NoTraceOf(id, committed_disclosure, committed.ledger)
          /\ (publish.pc = "idle" \/ publish.disclosure_id # id) =>
                NoTraceOf(id, SessionDisclosures, ledger)

\* A publish was aborted by a failed anchor write in strict mode and its
\* request is over, with business events in the ledger.
C27_Witness ==
    /\ publish.pc = "idle"
    /\ publish.aborted # {}
    /\ result = Outcome("publish_disclosure_run", "error", "RuntimeError", "")
    /\ BusinessEvents(ledger) # <<>>

\* The names of the references anchor_disclosure returns, in the order of
\* its writes.
AnchorRefNames == <<"disclosure", "root_summary", "root_details">>

\* C28: when a write to the anchor backend fails in non-strict mode, the
\* anchoring does not raise: that write and the later ones are made by the
\* fake client, their references and their local mirrors carry backend
\* "fake" and the value written, the earlier ones carry the backend of the
\* settings, and the run the publish goes on to store has these references
\* as its anchor_ref.
C28_FallbackToFakeIsRecorded ==
    /\ (publish.pc = "raised" /\ publish.error = "RuntimeError") => publish.anchor_strict
    /\ publish.pc \in {"persist", "done"} =>
          \A j \in 1..Len(AnchorRefNames) :
              AnchorRefNames[j] \in DOMAIN publish.anchor_ref =>
                  LET ref == publish.anchor_ref[AnchorRefNames[j]]
                      fell_back == publish.failed_write # 0 /\ j >= publish.failed_write
                  IN  /\ ref.backend = IF fell_back THEN "fake" ELSE "immudb_py"
                      /\ ref.key \in DOMAIN anchor_records
                      /\ anchor_records[ref.key].backend = ref.backend
                      /\ anchor_records[ref.key].value_json = ref.value
    /\ publish.pc \in {"persist", "done"} =>
          {"disclosure", "root_summary"} \subseteq DOMAIN publish.anchor_ref
    /\ publish.pc = "done" =>
          /\ publish.disclosure_id \in DOMAIN disclosure_runs
          /\ disclosure_runs[publish.disclosure_id].anchor_ref = publish.anchor_ref

\* The second write of a publish fell back to the fake client, and the run
\* was stored with a reference of each backend.
C28_Witness ==
    /\ publish.pc = "done"
    /\ publish.failed_write = 2
    /\ ~publish.anchor_strict
    /\ disclosure_runs[publish.disclosure_id].anchor_ref["disclosure"].backend = "immudb_py"
    /\ disclosure_runs[publish.disclosure_id].anchor_ref["root_summary"].backend = "fake"
    /\ anchor_records[<<"root:summary", publish.policy_id, publish.period.start>>].backend
           = "fake"

\* The places of the DisclosurePublished events of disclosure id.
PublishedEventsOf(rows, id) ==
    {i \in 1..Len(rows) :
        rows[i].event_type = "DisclosurePublished" /\ rows[i].payload.disclosure_id = id}

\* Each run has exactly one DisclosurePublished event, which carries the
\* run's root_summary as merkle_root, and each such event has its run.
RunsMatchEvents(runs, rows) ==
    /\ \A id \in DOMAIN runs :
          /\ Cardinality(PublishedEventsOf(rows, id)) = 1
          /\ \A i \in PublishedEventsOf(rows, id) :
                /\ rows[i].payload.merkle_root = runs[id].root_summary
                /\ rows[i].payload.policy_id = runs[id].policy_id
    /\ \A i \in 1..Len(rows) :
          rows[i].event_type = "DisclosurePublished" =>
              rows[i].payload.disclosure_id \in DOMAIN runs

\* C29: disclosure runs and DisclosurePublished events correspond one to
\* one, in what is committed and in what a session sees once the publish
\* has returned: one event per run, with the run's disclosure_id and
\* merkle_root = root_summary, and no event without its run.
C29_RunsAndEventsOneToOne ==
    /\ RunsMatchEvents(committed_disclosure.disclosure_runs, committed.ledger)
    /\ publish.pc \in {"idle", "done"} => RunsMatchEvents(disclosure_runs, ledger)

\* A publish was committed: its run and its event are in the database, after
\* a business event.
C29_Witness ==
    /\ publish.pc = "idle"
    /\ "D1" \in DOMAIN committed_disclosure.disclosure_runs
    /\ PublishedEventsOf(committed.ledger, "D1") # {}
    /\ BusinessEvents(committed.ledger) # <<>>
    /\ committed_disclosure.disclosure_runs["D1"].root_summary # EMPTY_ROOT

\* The run of disclosure id, a metric row, the mirror of its anchor record
\* and its DisclosurePublished event are in the tables and the ledger rows.
AllOf(id, tables, rows) ==
    /\ id \in DOMAIN tables.disclosure_runs
    /\ \E i \in 1..Len(tables.disclosure_metrics) :
          tables.disclosure_metrics[i].disclosure_id = id
    /\ <<"disclosure", id, 0>> \in DOMAIN tables.anchor_records
    /\ PublishedEventsOf(rows, id) # {}

\* C37: publish_disclosure_run is all-or-nothing for an actor of any type:
\* once the request is over, either the run, its metric rows, its anchor
\* records and its DisclosurePublished event are all stored, or none of them
\* is and the anchor store holds no record of the disclosure either.
C37_PublishIsAllOrNothing ==
    publish.pc = "idle" =>
        \A k \in 1..publish.drawn :
            LET id == DrawnDisclosureIds[k]
            IN  \/ /\ AllOf(id, committed_disclosure, committed.ledger)
                   /\ AllOf(id, SessionDisclosures, ledger)
                \/ /\ NoTraceOf(id, committed_disclosure, committed.ledger)
                   /\ NoTraceOf(id, SessionDisclosures, ledger)
                   /\ <<"disclosure", id, 0>> \notin DOMAIN immudb

(***************************************************************************)
(* The orchestrator run (SpecOrch)                                         *)
(*                                                                         *)
(* AgentOrchestrator.run with its thread pool.  A task is what             *)
(* _run_single_task does with it: it returns a success, returns a failure, *)
(* or never returns.  A future is queued, running, returned or cancelled.  *)
(* The events the run appends to the ledger are kept by their content in   *)
(* orchestrator.events, in the order of their appends; time is in seconds. *)
(* The disclosure step is followed by its outcome only: what               *)
(* publish_disclosure_run does is the matter of SpecPublish.               *)
(***************************************************************************)
MaxTasks == 2

MaxTimeout == 2

\* What _run_single_task does with a task.
TaskBehaviours == {"success", "failed", "never"}

OrchestratorTask(behaviour, timeout_seconds) ==
    [behaviour |-> behaviour, timeout_seconds |-> timeout_seconds]

OrchestratorTasks ==
    {OrchestratorTask(b, t) : b \in TaskBehaviours, t \in 1..MaxTimeout}

\* OrchestratorRunRequest: the tasks, max_concurrency, and whether a
\* disclosure step is asked for.
OrchestratorRunRequests ==
    {[tasks |-> tasks, max_concurrency |-> c, disclosure |-> d] :
        tasks \in UNION {[1..n -> OrchestratorTasks] : n \in 0..MaxTasks},
        c \in 1..MaxTasks, d \in BOOLEAN}

OrchRest ==
    <<SessionIdle, result, ConcIdle, RevealIdle, replay, aggregate, merkle, commitments,
      disclosure_runs, disclosure_metrics, disclosure_grouped_metrics, anchor_records,
      committed_disclosure, publish, immudb, today, skill>>

InitOrch == Init

\* _emit_state within transition: the event and the new current state.
\* Mutant: current_state stays what it was.
transition_keeping_state(o, to_state, reason) ==
    [o EXCEPT !.events = Append(@, [event_type |-> "OrchestratorStateChanged",
                                    from_state |-> o.current_state,
                                    to_state |-> Some(to_state),
                                    task |-> 0, status |-> reason])]

transition(o, to_state, reason) ==
    [o EXCEPT !.events = Append(@, [event_type |-> "OrchestratorStateChanged",
                                    from_state |-> o.current_state,
                                    to_state |-> Some(to_state),
                                    task |-> 0, status |-> reason]),
              !.current_state = Some(to_state)]

\* _emit_tool_log of the result of the k-th task.  Mutant: the synthetic
\* result of a timeout is kept and not logged.
_emit_tool_log_unless_timeout(o, k, status, error) ==
    [o EXCEPT !.events = IF error = "timeout" THEN @
                         ELSE Append(@, [event_type |-> "ToolInvocationLogged",
                                         from_state |-> None, to_state |-> None,
                                         task |-> k, status |-> status]),
              !.results = Append(@, [task |-> k, status |-> status, error |-> error])]

_emit_tool_log(o, k, status, error) ==
    [o EXCEPT !.events = Append(@, [event_type |-> "ToolInvocationLogged",
                                    from_state |-> None, to_state |-> None,
                                    task |-> k, status |-> status]),
              !.results = Append(@, [task |-> k, status |-> status, error |-> error])]

\* The worker threads take queued futures while fewer than max_workers run.
RECURSIVE Started(_, _)
Started(futures, max_workers) ==
    LET running == {i \in 1..Len(futures) : futures[i] = "running"}
        queued == {i \in 1..Len(futures) : futures[i] = "queued"}
    IN  IF queued = {} \/ Cardinality(running) >= max_workers THEN futures
        ELSE Started([futures EXCEPT ![CHOOSE i \in queued : \A j \in queued : i <= j] =
                                         "running"],
                     max_workers)

\* The run returns with a status.
Returned(o, status) == [o EXCEPT !.pc = "returned", !.status = status]

\* run, lines 163-219: the plan transition, the answer to an empty request,
\* the act transition and the submission of every task to the pool.
OrchestratorRun ==
    /\ orchestrator.pc = "idle"
    /\ \E request \in OrchestratorRunRequests :
          orchestrator' =
              LET planned ==
                      transition([orchestrator EXCEPT
                                     !.tasks = request.tasks,
                                     !.max_concurrency = request.max_concurrency,
                                     !.with_disclosure = request.disclosure],
                                 "plan", "")
                  max_workers ==
                      IF request.max_concurrency < Len(request.tasks)
                      THEN request.max_concurrency
                      ELSE IF Len(request.tasks) > 1 THEN Len(request.tasks) ELSE 1
              IN  IF request.tasks = <<>>
                  THEN Returned(transition(planned, "failed", "no tasks provided"), "failed")
                  ELSE [transition(planned, "act", "") EXCEPT
                           !.pc = "wait", !.max_workers = max_workers,
                           !.futures = Started([i \in 1..Len(request.tasks) |-> "queued"],
                                               max_workers),
                           !.waited = 1, !.elapsed = 0]
    /\ UNCHANGED OrchRest

\* A worker thread: _run_single_task returns, and the thread takes the next
\* queued future.  A task that never returns keeps its thread.
WorkerReturns(i) ==
    /\ orchestrator.pc \in {"wait", "shutdown"}
    /\ i \in 1..Len(orchestrator.futures)
    /\ orchestrator.futures[i] = "running"
    /\ orchestrator.tasks[i].behaviour # "never"
    /\ orchestrator' =
          [orchestrator EXCEPT
              !.futures = Started([@ EXCEPT ![i] = "returned"], orchestrator.max_workers)]
    /\ UNCHANGED OrchRest

\* A second passes while the orchestrating thread waits in future.result.
SecondPasses ==
    /\ orchestrator.pc = "wait"
    /\ orchestrator.futures[orchestrator.waited] # "returned"
    /\ orchestrator.elapsed < orchestrator.tasks[orchestrator.waited].timeout_seconds
    /\ orchestrator' = [orchestrator EXCEPT !.elapsed = @ + 1]
    /\ UNCHANGED OrchRest

\* The orchestrating thread goes on to the next future, or leaves the loop
\* for the exit of the with block.
NextFuture(o) ==
    IF o.waited < Len(o.tasks)
    THEN [o EXCEPT !.waited = @ + 1, !.elapsed = 0]
    ELSE [o EXCEPT !.pc = "shutdown", !.waited = 0, !.elapsed = 0]

\* Lines 221-223 and 246-247: future.result returns the result of the task,
\* which is logged.
FutureResult ==
    /\ orchestrator.pc = "wait"
    /\ orchestrator.futures[orchestrator.waited] = "returned"
    /\ orchestrator' =
          NextFuture(_emit_tool_log(orchestrator, orchestrator.waited,
                                    orchestrator.tasks[orchestrator.waited].behaviour, ""))
    /\ UNCHANGED OrchRest

\* Lines 224-234 and 246-247: future.result raises TimeoutError; the
\* synthetic failed result is logged and future.cancel() is called, which
\* cancels a future no thread has taken and leaves a running one alone.
FutureTimeout ==
    /\ orchestrator.pc = "wait"
    /\ orchestrator.futures[orchestrator.waited] \in {"queued", "running"}
    /\ orchestrator.elapsed = orchestrator.tasks[orchestrator.waited].timeout_seconds
    /\ orchestrator' =
          NextFuture(_emit_tool_log(
              [orchestrator EXCEPT
                  !.futures[orchestrator.waited] = IF @ = "queued" THEN "cancelled" ELSE @],
              orchestrator.waited, "failed", "timeout"))
    /\ UNCHANGED OrchRest

\* The exit of the with block, ThreadPoolExecutor.__exit__: shutdown(wait =
\* True) returns when every worker thread has ended, that is when no future
\* is running or queued.  Then lines 249-289: the verify transition, the
\* failed one and the return, or the disclose transition, the disclosure
\* step, which publishes or raises, the completed transition and the return.
PoolShutdown ==
    /\ orchestrator.pc = "shutdown"
    /\ \A i \in 1..Len(orchestrator.futures) :
          orchestrator.futures[i] \in {"returned", "cancelled"}
    /\ \E published \in BOOLEAN :
          orchestrator' =
              LET verified == transition(orchestrator, "verify", "")
                  failures == SelectSeq(orchestrator.results, LAMBDA r : r.status # "success")
                  disclosing == transition(verified, "disclose", "")
              IN  IF failures # <<>>
                  THEN Returned(transition(verified, "failed", "task(s) failed"), "failed")
                  ELSE IF ~orchestrator.with_disclosure
                  THEN Returned(transition(disclosing, "completed", ""), "completed")
                  ELSE IF ~published
                  THEN [disclosing EXCEPT !.pc = "raised"]
                  ELSE Returned(transition([disclosing EXCEPT !.disclosure = "published"],
                                           "completed", ""),
                                "completed")
    /\ UNCHANGED OrchRest

NextOrch ==
    \/ OrchestratorRun
    \/ \E i \in 1..MaxTasks : WorkerReturns(i)
    \/ SecondPasses
    \/ FutureResult
    \/ FutureTimeout
    \/ PoolShutdown

\* The orchestrating thread and the worker threads are scheduled: a step
\* that stays possible is taken.
SpecOrch ==
    /\ InitOrch
    /\ [][NextOrch]_vars
    /\ WF_vars(SecondPasses \/ FutureResult \/ FutureTimeout \/ PoolShutdown)
    /\ \A i \in 1..MaxTasks : WF_vars(WorkerReturns(i))

\* A task that never returns was taken by a worker thread.
NeverReturningDispatched ==
    \E i \in 1..Len(orchestrator.futures) :
        orchestrator.futures[i] = "running" /\ orchestrator.tasks[i].behaviour = "never"

\* C30: a run with a dispatched task that never returns does not hang: the
\* task gets the synthetic failed result after its timeout_seconds, and the
\* run logs it, reaches the failed state and returns.
C30_RunWithStuckTaskReturns ==
    NeverReturningDispatched ~>
        (/\ orchestrator.pc = "returned"
         /\ orchestrator.status = "failed"
         /\ orchestrator.current_state = Some("failed")
         /\ \E k \in 1..Len(orchestrator.results) :
               orchestrator.results[k].error = "timeout")

\* The places of the events of a type among the events of the run.
RunEventsOfType(o, event_type) ==
    {i \in 1..Len(o.events) : o.events[i].event_type = event_type}

\* The places of the state events that lead to a state.
StateEventsTo(o, to_state) ==
    {i \in RunEventsOfType(o, "OrchestratorStateChanged") : o.events[i].to_state = Some(to_state)}

\* The tasks of the ToolInvocationLogged events of the run, in the order of
\* their appends.
LoggedTasks(o) ==
    LET logged == SelectSeq(o.events, LAMBDA e : e.event_type = "ToolInvocationLogged")
    IN  [i \in 1..Len(logged) |-> logged[i].task]

\* The futures the orchestrating thread is done with.
FuturesHandled(o) ==
    IF o.pc = "wait" THEN o.waited - 1
    ELSE IF o.pc \in {"shutdown", "returned", "raised"} THEN Len(o.tasks)
    ELSE 0

\* C31: at most min(max_concurrency, number of tasks) tasks run at a time;
\* the ToolInvocationLogged events of a run are one per task the
\* orchestrating thread is done with, in submission order, after the act
\* event and before the verify event; a worker thread appends nothing.
C31_ToolLogsInSubmissionOrder ==
    /\ [](LET o == orchestrator
              running == {i \in 1..Len(o.futures) : o.futures[i] = "running"}
          IN  /\ Cardinality(running) <= o.max_concurrency
              /\ Cardinality(running) <= Len(o.tasks)
              /\ LoggedTasks(o) = [k \in 1..FuturesHandled(o) |-> k]
              /\ \A i \in RunEventsOfType(o, "ToolInvocationLogged") :
                    /\ \E a \in StateEventsTo(o, "act") : a < i
                    /\ \A v \in StateEventsTo(o, "verify") : i < v)
    /\ [][(\E i \in 1..MaxTasks : WorkerReturns(i)) =>
              orchestrator'.events = orchestrator.events]_vars

\* A run of two tasks with two workers returned: the first task was slow and
\* got the synthetic result of its timeout, the second succeeded.
C31_Witness ==
    /\ orchestrator.pc = "returned"
    /\ Len(orchestrator.tasks) = 2
    /\ orchestrator.max_concurrency = 2
    /\ orchestrator.results[1].error = "timeout"
    /\ orchestrator.results[2].status = "success"
    /\ StateEventsTo(orchestrator, "verify") # {}

\* The states the OrchestratorStateChanged events of the run lead to, in
\* the order of their appends.
StatePath(o) ==
    LET changed == SelectSeq(o.events, LAMBDA e : e.event_type = "OrchestratorStateChanged")
    IN  [i \in 1..Len(changed) |-> changed[i].to_state[1]]

\* The from_state of the same events.
StateOrigins(o) ==
    LET changed == SelectSeq(o.events, LAMBDA e : e.event_type = "OrchestratorStateChanged")
    IN  [i \in 1..Len(changed) |-> changed[i].from_state]

IsPrefixOf(a, b) == Len(a) <= Len(b) /\ SubSeq(b, 1, Len(a)) = a

\* The complete paths of a run.
CompletePaths ==
    { <<"plan", "failed">>,
      <<"plan", "act", "verify", "failed">>,
      <<"plan", "act", "verify", "disclose", "completed">> }

MaxSkillRuns == 2

MaxReceipts == 2

\* f"skillrun-{uuid4().hex[:20]}" of the n-th run.
DrawnRunIds == <<"skillrun-1", "skillrun-2", "skillrun-3">>

\* The empty string of a hash field.
NoHash == <<>>

\* sha256_hex of a value that is no event preimage: the digest is kept as
\* the term of its preimage.
Digest(value) == <<"sha256", canonical_json(value)>>

\* SkillRegistry.load: the manifests of the skills directory.
SkillManifests ==
    [procurement |-> [name |-> "procurement", entrypoint |-> "procurement.run",
                      permissions |-> <<"ledger_write", "inventory_write">>,
                      sop_markdown |-> "procurement sop"],
     disclosure |-> [name |-> "disclosure", entrypoint |-> "disclosure.run",
                     permissions |-> <<"ledger_write">>, sop_markdown |-> "disclosure sop"],
     broken |-> [name |-> "broken", entrypoint |-> "missing.entrypoint",
                 permissions |-> <<"ledger_write">>, sop_markdown |-> "broken sop"]]

\* The entrypoints registered by register_entrypoint.
SKILL_ENTRYPOINTS == {"procurement.run", "disclosure.run"}

get_entrypoint(name) == IF name \in SKILL_ENTRYPOINTS THEN Some(name) ELSE None

\* Queries: the skill of the prefix skill:<name> and the quantity the
\* procurement entrypoint reads; the last one names no skill.
SkillQueries ==
    {[skill |-> "procurement", qty |-> 100], [skill |-> "procurement", qty |-> 2000],
     [skill |-> "disclosure", qty |-> 0], [skill |-> "broken", qty |-> 0],
     [skill |-> "", qty |-> 0]}

SkillActors == {"agent", "human"}

\* SkillRouter.route on an explicit prefix.
route(query) ==
    IF query.skill \in DOMAIN SkillManifests
    THEN Some([manifest |-> SkillManifests[query.skill], reason |-> "explicit_skill_prefix",
               rewritten_query |-> query])
    ELSE None

\* The goods received by other requests: two deliveries of one batch.
SkillReceipts ==
    << EventCreateRequest("GoodsReceived", "agent",
                          GoodsReceivedPayload("B1", 2, "2026-01-20", Some(200)), EmptyDict,
                          Some(1)),
       EventCreateRequest("GoodsReceived", "agent",
                          GoodsReceivedPayload("B1", 3, "2026-01-20", Some(300)), EmptyDict,
                          Some(1)) >>

\* What no step of a skill run touches.
SkillRest ==
    <<ConcIdle, RevealIdle, replay, aggregate, merkle, commitments, orchestrator>>

\* LedgerStore.append on the session as it is: the signer and governance
\* checks come first, _latest_event_hash is the first use of the session
\* (a session whose flush failed raises until it is rolled back), the flush
\* ends the call.  out is what append makes of the request.
SessionAppend(out) ==
    IF out.detail \in {"signer_mismatch", "governance_denied"} THEN out
    ELSE IF failed THEN Raised("PendingRollbackError", "session")
    ELSE IF out.status = "error" THEN out
    ELSE IF ~CanFlush(orders_view, inventory_view, new_orders, new_lots)
    THEN Raised("IntegrityError", "flush")
    ELSE out

\* What append makes of a request on the rows and digests of the session.
Appending(request, signer) ==
    append(hashed, request, signer, _latest_event_hash(ledger), FreshUuid(ledger), today)

\* The session after LedgerStore.append returned or raised out.
AppendApplied(out) ==
    IF out.status = "ok"
    THEN /\ ledger' = Inserted(ledger, out.added)
         /\ hashed' = Hashed(hashed, out.hash_input)
         /\ orders_view' = FlushOrders(orders_view, new_orders)
         /\ inventory_view' = FlushLots(inventory_view, new_lots)
         /\ new_orders' = <<>>
         /\ new_lots' = <<>>
         /\ UNCHANGED failed
    ELSE /\ failed' = (failed \/ out.error = "IntegrityError")
         /\ UNCHANGED <<ledger, hashed, orders_view, inventory_view, new_orders, new_lots>>

\* Another request appends a GoodsReceived event and commits.
AppendReceipt ==
    /\ skill.pc = "idle"
    /\ ~failed
    /\ Len(ledger) = Len(SelectSeq(ledger, LAMBDA e : e.event_type = "GoodsReceived"))
    /\ Len(ledger) < MaxReceipts
    /\ Len(ledger) < Len(SkillReceipts)
    /\ \E made \in {Appending(SkillReceipts[Len(ledger) + 1], load_role_key("agent"))} :
       \E out \in {SessionAppend(made)} :
          /\ out.status = "ok"
          /\ AppendApplied(out)
          /\ committed' = [committed EXCEPT !.ledger = ledger', !.hashed = hashed']
    /\ UNCHANGED <<result, DisclosureTables, committed_disclosure, publish, immudb, today, skill,
                   SkillRest>>

\* _append_audit, lines 53-79: the request of an audit event of the run s.
_append_audit(s, event_type, payload, trace_extra) ==
    EventCreateRequest(event_type, s.actor_type, payload,
                       trace_extra @@
                       [skill_run_id |-> s.run_id, skill_name |-> s.skill_name,
                        skill_entrypoint |-> s.entrypoint, source |-> "skill_executor",
                        route_reason |-> "explicit_skill_prefix"],
                       None)

\* The fields every audit payload of the run s has, with the rest of it.
AuditPayload(s, rest) ==
    rest @@ [run_id |-> s.run_id, skill_name |-> s.skill_name, entrypoint |-> s.entrypoint,
             actor_id |-> ActorId(s.actor_type), inputs_hash |-> s.inputs_hash]

\* The signer SkillExecutor.__init__ loads.
SkillSigner(s) == load_role_key(expected_signer_role(s.actor_type))

\* SkillExecutor.run, lines 81-111: the route, the run id and the
\* SkillRunStarted event.
SkillExecutorRun ==
    /\ skill.pc = "idle"
    /\ ~failed
    /\ skill.drawn < MaxSkillRuns
    /\ skill.drawn < Len(DrawnRunIds)
    /\ \E actor_type \in SkillActors, query \in SkillQueries :
          IF route(query) = None
          THEN /\ skill' = [skill EXCEPT !.pc = "raised", !.actor_type = actor_type,
                                         !.query = query, !.raised = "ValueError"]
               /\ UNCHANGED <<ledger, hashed, orders_view, inventory_view, new_orders,
                              new_lots, failed>>
          ELSE \E s \in {[skill EXCEPT
                             !.run_id = DrawnRunIds[skill.drawn + 1],
                             !.drawn = skill.drawn + 1,
                             !.skill_name = route(query)[1].manifest.name,
                             !.entrypoint = route(query)[1].manifest.entrypoint,
                             !.actor_type = actor_type,
                             !.query = query,
                             !.inputs_hash =
                                 Digest([query |-> query, raw_query |-> query,
                                         skill_name |-> route(query)[1].manifest.name,
                                         entrypoint |-> route(query)[1].manifest.entrypoint])]} :
               \E made \in {Appending(
                              _append_audit(s, "SkillRunStarted",
                                  AuditPayload(s,
                                      [outputs_hash |-> NoHash,
                                       permissions |-> route(query)[1].manifest.permissions,
                                       sop_hash |->
                                           Digest([sop |->
                                                     route(query)[1].manifest.sop_markdown]),
                                       receipt_hash |-> None]),
                                  EmptyDict),
                              SkillSigner(s))} :
               \E out \in {SessionAppend(made)} :
                  /\ AppendApplied(out)
                  /\ skill' = IF out.status = "ok" THEN [s EXCEPT !.pc = "entrypoint"]
                              ELSE [s EXCEPT !.pc = "raised", !.raised = out.error]
    /\ UNCHANGED <<committed, result, DisclosureTables, committed_disclosure, publish, immudb, today,
                   SkillRest>>

\* Lines 113-118: no entrypoint is registered under the manifest's name.
EntrypointMissing ==
    /\ skill.pc = "entrypoint"
    /\ get_entrypoint(skill.entrypoint) = None
    /\ skill' = [skill EXCEPT !.pc = "except", !.error = "RuntimeError"]
    /\ UNCHANGED <<SessionIdle, result, DisclosureTables, committed_disclosure, publish, immudb, today,
                   SkillRest>>

\* The requests of procurement_run: the order and the receipt of the
\* quantity the query names, at the default unit price of 3.2 yuan.
ProcurementRequests(s) ==
    << EventCreateRequest("ProcurementOrdered", s.actor_type,
                          [procurement_id |-> Some("SKILL-PO"), supplier_id |-> "supplier-auto",
                           items |-> << [sku |-> "vegetable", qty |-> s.query.qty,
                                         unit_cost |-> 320] >>,
                           expected_date |-> "2026-01-11"],
                          [skill_run_id |-> s.run_id, skill_name |-> s.skill_name,
                           skill_entrypoint |-> s.entrypoint, source |-> "skill_executor"],
                          None),
       EventCreateRequest("GoodsReceived", s.actor_type,
                          [procurement_id |-> "SKILL-PO", batch_id |-> "SKILL-BATCH",
                           items |-> << [sku |-> "vegetable", qty |-> s.query.qty,
                                         expiry_date |-> "2026-01-17",
                                         unit_cost |-> Some(320)] >>,
                           qc_passed |-> TRUE],
                          [skill_run_id |-> s.run_id, skill_name |-> s.skill_name,
                           skill_entrypoint |-> s.entrypoint, source |-> "skill_executor"],
                          None) >>

\* procurement_run, lines 113-179: two appends, the second one on what the
\* first left, and the dict returned.
ProcurementRun ==
    /\ skill.pc = "entrypoint"
    /\ get_entrypoint(skill.entrypoint) = Some("procurement.run")
    /\ \E made \in {Appending(ProcurementRequests(skill)[1], SkillSigner(skill))} :
       \E first \in {SessionAppend(made)} :
          IF first.status = "error"
          THEN /\ AppendApplied(first)
               /\ skill' = [skill EXCEPT !.pc = "except", !.error = first.error]
          ELSE \E second \in {append(Hashed(hashed, first.hash_input),
                                     ProcurementRequests(skill)[2], SkillSigner(skill),
                                     _latest_event_hash(Inserted(ledger, first.added)),
                                     FreshUuid(Inserted(ledger, first.added)), today)} :
               /\ ledger' = Inserted(Inserted(ledger, first.added), second.added)
               /\ hashed' = IF second.status = "ok"
                            THEN Hashed(Hashed(hashed, first.hash_input), second.hash_input)
                            ELSE Hashed(hashed, first.hash_input)
               /\ orders_view' = FlushOrders(orders_view, new_orders)
               /\ inventory_view' = FlushLots(inventory_view, new_lots)
               /\ new_orders' = <<>>
               /\ new_lots' = <<>>
               /\ UNCHANGED failed
               /\ skill' =
                     IF second.status = "error"
                     THEN [skill EXCEPT !.pc = "except", !.error = second.error]
                     ELSE [skill EXCEPT
                              !.pc = "finish",
                              !.output =
                                  Some([procurement_id |-> "SKILL-PO",
                                        batch_id |-> "SKILL-BATCH",
                                        supplier_id |-> "supplier-auto",
                                        sku |-> "vegetable", qty |-> skill.query.qty,
                                        unit_cost_cents |-> 320,
                                        total_cost_cents |-> skill.query.qty * 320,
                                        ordered_event_id |-> first.added[1].event_id,
                                        received_event_id |-> second.added[1].event_id])]
    /\ UNCHANGED <<committed, result, DisclosureTables, committed_disclosure, publish, immudb, today,
                   SkillRest>>

\* disclosure_run, lines 183-216: the public policy, yesterday's window
\* moved behind the policy's delay, publish_disclosure_run entered.
DisclosureRun ==
    /\ skill.pc = "entrypoint"
    /\ get_entrypoint(skill.entrypoint) = Some("disclosure.run")
    /\ publish.pc = "idle"
    /\ publish.drawn < Len(DrawnDisclosureIds)
    /\ Entered("policy_public_v1",
               _adjust_for_delay("policy_public_v1", _day_window(today), today), <<"channel">>)

\* disclosure_run, lines 209-226: publish_disclosure_run returned or raised.
DisclosureRunOver ==
    /\ skill.pc = "entrypoint"
    /\ publish.pc \in {"done", "raised"}
    /\ skill' =
          IF publish.pc = "raised"
          THEN [skill EXCEPT !.pc = "except", !.error = publish.error]
          ELSE [skill EXCEPT
                   !.pc = "finish",
                   !.output = Some([disclosure_id |-> publish.disclosure_id,
                                    policy_id |-> publish.policy_id,
                                    period |-> publish.period,
                                    root_summary |-> publish.commitments.root_summary,
                                    root_details |-> publish.commitments.root_details,
                                    metrics |-> publish.metrics])]
    /\ publish' = Over(publish)
    /\ UNCHANGED <<SessionIdle, result, DisclosureTables, committed_disclosure, immudb, today,
                   SkillRest>>

\* Lines 125-152, inside the try: the SkillRunFinished event of the output.
SkillRunFinished ==
    /\ skill.pc = "finish"
    /\ \E made \in {Appending(
                      _append_audit(skill, "SkillRunFinished",
                          AuditPayload(skill, [outputs_hash |-> Digest(skill.output[1]),
                                               receipt_hash |-> None]),
                          [outputs_hash |-> Digest(skill.output[1])]),
                      SkillSigner(skill))} :
       \E out \in {SessionAppend(made)} :
          /\ AppendApplied(out)
          /\ skill' = IF out.status = "ok" THEN [skill EXCEPT !.pc = "returned"]
                      ELSE [skill EXCEPT !.pc = "except", !.error = out.error]
    /\ UNCHANGED <<committed, result, DisclosureTables, committed_disclosure, publish, immudb, today,
                   SkillRest>>

\* Lines 153-173, the handler: the SkillRunFailed event, then the error is
\* raised again; an error of the append leaves the handler instead.
SkillRunFailed ==
    /\ skill.pc = "except"
    /\ \E made \in {Appending(
                      _append_audit(skill, "SkillRunFailed",
                          AuditPayload(skill, [outputs_hash |-> NoHash,
                                               error |-> skill.error]),
                          [error |-> skill.error]),
                      SkillSigner(skill))} :
       \E out \in {SessionAppend(made)} :
          /\ AppendApplied(out)
          /\ skill' = [skill EXCEPT !.pc = "raised",
                                    !.raised = IF out.status = "ok" THEN skill.error
                                               ELSE out.error]
    /\ UNCHANGED <<committed, result, DisclosureTables, committed_disclosure, publish, immudb, today,
                   SkillRest>>

\* The next run starts with what this one leaves.
SkillOver(s) == [NoSkillRun EXCEPT !.drawn = s.drawn]

\* _run_agent_skill, lines 41-66: run returned, session_scope commits.
SkillCommit ==
    /\ skill.pc = "returned"
    /\ committed' = Database
    /\ committed_disclosure' =
          [disclosure_runs |-> disclosure_runs, disclosure_metrics |-> disclosure_metrics,
           disclosure_grouped_metrics |-> disclosure_grouped_metrics,
           anchor_records |-> anchor_records]
    /\ result' = Outcome("run", "ok", "", skill.run_id)
    /\ skill' = SkillOver(skill)
    /\ UNCHANGED <<ledger, orders_view, inventory_view, new_orders, new_lots, failed, hashed,
                   DisclosureTables, publish, immudb, today, SkillRest>>

\* _run_agent_skill: run raised, session_scope rolls back.
SkillRollback ==
    /\ skill.pc = "raised"
    /\ ledger' = committed.ledger
    /\ orders_view' = committed.orders_view
    /\ inventory_view' = committed.inventory_view
    /\ hashed' = committed.hashed
    /\ new_orders' = <<>>
    /\ new_lots' = <<>>
    /\ failed' = FALSE
    /\ disclosure_runs' = committed_disclosure.disclosure_runs
    /\ disclosure_metrics' = committed_disclosure.disclosure_metrics
    /\ disclosure_grouped_metrics' = committed_disclosure.disclosure_grouped_metrics
    /\ anchor_records' = committed_disclosure.anchor_records
    /\ result' = Outcome("run", "error", skill.raised, skill.run_id)
    /\ skill' = SkillOver(skill)
    /\ UNCHANGED <<committed, committed_disclosure, publish, immudb, today, SkillRest>>

InitSkill == Init

NextSkill ==
    \/ AppendReceipt
    \/ SkillExecutorRun
    \/ EntrypointMissing
    \/ ProcurementRun
    \/ DisclosureRun
    \/ AnchorDisclosure
    \/ PersistRun
    \/ DisclosureRunOver
    \/ SkillRunFinished
    \/ SkillRunFailed
    \/ SkillCommit
    \/ SkillRollback

SpecSkill == InitSkill /\ [][NextSkill]_vars

\* The places in rows of the run's audit events of the given kinds.
AuditPlaces(rows, run_id, event_types) ==
    {i \in 1..Len(rows) : /\ rows[i].event_type \in event_types
                          /\ rows[i].payload.run_id = run_id}

\* run returned or raised on a routed query.
RunIsOver == skill.pc \in {"returned", "raised"} /\ skill.run_id # ""

\* C32: when SkillExecutor.run returns or raises on a routed query, the rows
\* the run appended start with its one SkillRunStarted event and end with
\* its one terminal event: SkillRunFinished with the digest of the output
\* if the entrypoint returned a dict and run returns, SkillRunFailed if the
\* entrypoint is missing or raised, and then run raises that same error.
C32_StartedThenOneTerminalEvent ==
    RunIsOver =>
        /\ AuditPlaces(ledger, skill.run_id, {"SkillRunStarted"})
              = {Len(committed.ledger) + 1}
        /\ AuditPlaces(ledger, skill.run_id, {"SkillRunFinished", "SkillRunFailed"})
              = {Len(ledger)}
        /\ Len(ledger) > Len(committed.ledger) + 1
        /\ IF skill.pc = "returned"
           THEN /\ ledger[Len(ledger)].event_type = "SkillRunFinished"
                /\ skill.output # None
                /\ ledger[Len(ledger)].payload.outputs_hash = Digest(skill.output[1])
           ELSE /\ ledger[Len(ledger)].event_type = "SkillRunFailed"
                /\ skill.error # ""
                /\ skill.raised = skill.error

(***************************************************************************)
(* The canonical codec (SpecCanon): src/app/ledger/canonical.py.  A Python *)
(* value is kept as a term: a dict with its items in insertion order, so   *)
(* that two orders of the same items are two terms, a list, a tuple, an    *)
(* int or a str.  canonical_json above takes a value whose canonical       *)
(* object is the value itself; CanonicalJsonOf is canonical_json on terms. *)
(***************************************************************************)
MaxKeys == 2

PyInt(n) == [t |-> "int", n |-> n, s |-> "", items |-> <<>>]

PyStr(s) == [t |-> "str", n |-> 0, s |-> s, items |-> <<>>]

PyList(items) == [t |-> "list", n |-> 0, s |-> "", items |-> items]

PyTuple(items) == [t |-> "tuple", n |-> 0, s |-> "", items |-> items]

\* A dict: its items (k, v) in insertion order, the keys distinct.
PyDict(items) == [t |-> "dict", n |-> 0, s |-> "", items |-> items]

\* str(k) of a key.
KeyText(k) ==
    IF k.t = "str" THEN k.s
    ELSE CASE k.n = 1 -> "1" [] k.n = 2 -> "2" [] OTHER -> "0"

\* The order of the key texts the inputs use, by code point.
TextRank(text) ==
    CASE text = "0" -> 0 [] text = "1" -> 1 [] text = "2" -> 2
      [] text = "a" -> 3 [] text = "b" -> 4 [] text = "nested" -> 5

\* sorted(value.items(), key=lambda kv: str(kv[0])): a stable sort.
RECURSIVE InsertItem(_, _)
InsertItem(sorted, item) ==
    IF sorted = <<>> THEN <<item>>
    ELSE IF TextRank(KeyText(item.k)) < TextRank(KeyText(Head(sorted).k))
    THEN <<item>> \o sorted
    ELSE <<Head(sorted)>> \o InsertItem(Tail(sorted), item)

RECURSIVE SortedItems(_)
SortedItems(items) ==
    IF items = <<>> THEN <<>>
    ELSE InsertItem(SortedItems(SubSeq(items, 1, Len(items) - 1)), items[Len(items)])

\* {str(k): v for k, v in pairs}: a key met again keeps its place and takes
\* the later value.
RECURSIVE DictOfPairs(_, _)
DictOfPairs(done, pairs) ==
    IF pairs = <<>> THEN done
    ELSE IF \E i \in 1..Len(done) : done[i].k = Head(pairs).k
    THEN DictOfPairs([i \in 1..Len(done) |->
                         IF done[i].k = Head(pairs).k THEN Head(pairs) ELSE done[i]],
                     Tail(pairs))
    ELSE DictOfPairs(Append(done, Head(pairs)), Tail(pairs))

\* to_canonical_obj, lines 24-49, on dicts, lists, tuples, ints and strs.
RECURSIVE to_canonical_obj(_)
to_canonical_obj(value) ==
    CASE value.t = "dict" ->
            PyDict(DictOfPairs(<<>>,
                <<>> \o [i \in 1..Len(value.items) |->
                            [k |-> PyStr(KeyText(SortedItems(value.items)[i].k)),
                             v |-> to_canonical_obj(SortedItems(value.items)[i].v)]]))
      [] value.t \in {"list", "tuple"} ->
            PyList(<<>> \o [i \in 1..Len(value.items) |-> to_canonical_obj(value.items[i])])
      [] OTHER -> value

\* canonical_json, lines 52-59: json.dumps of the canonical object with
\* sorted keys; two canonical objects have the same text only if equal.
CanonicalJsonOf(value) == canonical_json(to_canonical_obj(value))

\* sha256_hex, lines 62-63, the digest kept as the term of its preimage.
DigestOf(value) == <<"sha256", CanonicalJsonOf(value)>>

\* The sequences of the elements of a sequence in every order.
RECURSIVE Orders(_)
Orders(seq) ==
    IF seq = <<>> THEN {<<>>}
    ELSE UNION {{<<seq[i]>> \o rest :
                    rest \in Orders(SubSeq(seq, 1, i - 1) \o SubSeq(seq, i + 1, Len(seq)))}
                : i \in 1..Len(seq)}

\* The same value with the keys of its dicts inserted in another order, at
\* any depth; lists and tuples keep their order.
RECURSIVE KeyReorderings(_)
RECURSIVE ItemReorderings(_)
RECURSIVE ElementReorderings(_)
ItemReorderings(items) ==
    IF items = <<>> THEN {<<>>}
    ELSE {<<[k |-> Head(items).k, v |-> v]>> \o rest :
             v \in KeyReorderings(Head(items).v), rest \in ItemReorderings(Tail(items))}

ElementReorderings(items) ==
    IF items = <<>> THEN {<<>>}
    ELSE {<<v>> \o rest :
             v \in KeyReorderings(Head(items)), rest \in ElementReorderings(Tail(items))}

KeyReorderings(value) ==
    CASE value.t = "dict" ->
            UNION {{PyDict(items) : items \in Orders(inner)}
                   : inner \in ItemReorderings(value.items)}
      [] value.t = "list" -> {PyList(items) : items \in ElementReorderings(value.items)}
      [] value.t = "tuple" -> {PyTuple(items) : items \in ElementReorderings(value.items)}
      [] OTHER -> {value}

\* The values the codec is given: ints and strs, lists and tuples of them,
\* dicts of up to MaxKeys items under int and str keys, among them the keys
\* 1 and "1", and dicts and lists that hold a dict of two items.
CanonScalars == {PyInt(1), PyInt(2), PyStr("a")}

CanonKeys == {PyInt(1), PyStr("1"), PyStr("a"), PyStr("b")}

RECURSIVE DictItems(_)
DictItems(n) ==
    IF n = 0 THEN {<<>>}
    ELSE {Append(items, [k |-> k, v |-> v]) :
             items \in {d \in DictItems(n - 1) : Len(d) = n - 1},
             k \in CanonKeys, v \in CanonScalars}

FlatDicts ==
    {PyDict(items) : items \in {d \in UNION {DictItems(n) : n \in 0..MaxKeys} :
                                   NoDuplicates([i \in 1..Len(d) |-> d[i].k])}}

CanonArrays ==
    {PyList(<<a, b>>) : a, b \in CanonScalars}
    \cup {PyTuple(<<a, b>>) : a, b \in CanonScalars}

NestedValues ==
    {PyDict(<<[k |-> PyStr("b"), v |-> PyInt(2)], [k |-> PyStr("nested"), v |-> d]>>) :
        d \in {f \in FlatDicts : Len(f.items) = 2 /\ f.items[1].v = PyInt(1)}}
    \cup {PyList(<<d, PyInt(1)>>) :
             d \in {f \in FlatDicts : Len(f.items) = 2 /\ f.items[1].v = PyInt(1)}}

CanonValues == CanonScalars \cup FlatDicts \cup CanonArrays \cup NestedValues

\* An input of the codec: a value and the same value in another order.
CanonInput(kind, value, reordered) ==
    [op |-> "input", status |-> "", error |-> "", detail |-> "", kind |-> kind,
     value |-> value, reordered |-> reordered, bytes |-> <<>>, again |-> <<>>,
     bytes_reordered |-> <<>>, digest |-> <<>>, digest_reordered |-> <<>>]

\* A value with its keys in another order, or an array with its elements in
\* another order.
CanonInputs ==
    UNION {{CanonInput("keys", value, reordered) : reordered \in KeyReorderings(value)}
           : value \in CanonValues}
    \cup UNION {{CanonInput("arrays", value, [value EXCEPT !.items = items]) :
                    items \in Orders(value.items)} : value \in CanonArrays}

\* The empty database and idle components; the calls of a function wait in
\* result.
InitCalls ==
    /\ ledger = <<>>
    /\ orders_view = EmptyDict
    /\ inventory_view = EmptyDict
    /\ new_orders = <<>>
    /\ new_lots = <<>>
    /\ committed = [ledger |-> <<>>, orders_view |-> EmptyDict, inventory_view |-> EmptyDict,
                    hashed |-> <<>>, reveal_tokens |-> EmptyDict, reveal_audit |-> <<>>]
    /\ failed = FALSE
    /\ hashed = <<>>
    /\ pc = EmptyDict
    /\ held = EmptyDict
    /\ uncommitted = EmptyDict
    /\ InitElsewhere
    /\ today = 2

InitCanon ==
    /\ InitCalls
    /\ result \in CanonInputs

\* canonical_json and sha256_hex of the value, twice, and of the other one.
CanonicalJson ==
    /\ result.op = "input"
    /\ result' = [result EXCEPT !.op = "canonical_json", !.status = "ok",
                                !.bytes = CanonicalJsonOf(result.value),
                                !.again = CanonicalJsonOf(result.value),
                                !.bytes_reordered = CanonicalJsonOf(result.reordered),
                                !.digest = DigestOf(result.value),
                                !.digest_reordered = DigestOf(result.reordered)]
    /\ UNCHANGED <<SessionIdle, ConcIdle, RevealIdle, replay, MemoryIdle>>

NextCanon == CanonicalJson

SpecCanon == InitCanon /\ [][NextCanon]_vars

\* C33: canonical_json gives the same bytes, and sha256_hex the same digest,
\* for a value and for the same value with the keys of its dicts in another
\* order at any depth, and on a second call; the elements of an array keep
\* their order, and an array with its elements in another order gives other
\* bytes.
C33_KeyOrderIsIrrelevantArrayOrderIsNot ==
    result.op = "canonical_json" =>
        /\ result.again = result.bytes
        /\ result.kind = "keys" =>
              /\ result.bytes_reordered = result.bytes
              /\ result.digest_reordered = result.digest
        /\ result.kind = "arrays" =>
              /\ \A i \in 1..Len(result.value.items) :
                    to_canonical_obj(result.value).items[i]
                        = to_canonical_obj(result.value.items[i])
              /\ result.reordered.items # result.value.items
                    => result.bytes_reordered # result.bytes

(***************************************************************************)
(* GovernancePolicyEngine(policy).evaluate over policies of several rules  *)
(* (SpecRules): rules of one action with conditions that hold, that fail,  *)
(* and none, in every order.                                               *)
(***************************************************************************)
MaxRules == 2

RuleCondition(field, op, value) == [field |-> field, op |-> op, value |-> value]

GovernanceRule(rule_id, action, conditions, actor_types, signer, chain) ==
    [rule_id |-> rule_id, action |-> action, conditions |-> conditions,
     required_actor_types |-> actor_types, required_signer |-> signer,
     approval_chain |-> chain]

\* The rules policies are made of: four of one action (the default policy's
\* procurement rule, one whose condition holds for every order, one whose
\* condition no order meets, one without conditions or constraints) and
\* one of another action.
RuleUniverse ==
    {GovernanceRule("procurement_gt_5000_human", Action("event", "ProcurementOrdered"),
                    <<RuleCondition("derived.procurement_total_cents", "gt", 500000)>>,
                    {"human"}, "human", <<"human">>),
     GovernanceRule("procurement_auditor_approval", Action("event", "ProcurementOrdered"),
                    <<RuleCondition("derived.procurement_total_cents", "gt", 100)>>,
                    {}, "any", <<"auditor">>),
     GovernanceRule("procurement_amount_agent", Action("event", "ProcurementOrdered"),
                    <<RuleCondition("derived.amount_cents", "gte", 0)>>,
                    {"agent"}, "agent", <<>>),
     GovernanceRule("procurement_open", Action("event", "ProcurementOrdered"),
                    <<>>, {}, "any", <<>>),
     GovernanceRule("payment_human_only", Action("event", "PaymentCaptured"),
                    <<>>, {"human"}, "human", <<"human">>)}

RECURSIVE RuleLists(_)
RuleLists(n) ==
    IF n = 0 THEN {<<>>}
    ELSE RuleLists(n - 1)
         \cup {Append(rules, rule) :
                  rules \in {l \in RuleLists(n - 1) : Len(l) = n - 1},
                  rule \in RuleUniverse}

\* GovernancePolicy(policy_id, version, rules): rule ids are unique.
RulePolicies ==
    {[policy_id |-> "governance_policy_test", version |-> "1.0.0", rules |-> rules] :
        rules \in {l \in RuleLists(MaxRules) :
                      NoDuplicates([i \in 1..Len(l) |-> l[i].rule_id])}}

RulePayloads ==
    {[items |-> << [sku |-> "tomato", qty |-> 1000, unit_cost |-> 500] >>],
     [items |-> << [sku |-> "tomato", qty |-> 1000, unit_cost |-> 501] >>]}

RuleApprovals == {<<>>, <<"auditor">>}

\* The calls: an engine over a policy, and what evaluate is asked.
RuleCalls ==
    {[op |-> "input", policy |-> policy,
      call |-> [action |-> action, actor_type |-> actor_type, signer_role |-> signer_role,
                payload |-> payload, approvals |-> approvals],
      decision |-> <<>>] :
        policy \in RulePolicies,
        action \in {Action("event", "ProcurementOrdered"), Action("event", "PaymentCaptured")},
        actor_type \in ActorTypes, signer_role \in Roles,
        payload \in RulePayloads, approvals \in RuleApprovals}

InitRules ==
    /\ InitCalls
    /\ result \in RuleCalls

\* GovernancePolicyEngine(policy).evaluate(...): the decision is kept with
\* the policy and the call.
EvaluateRules ==
    /\ result.op = "input"
    /\ result' = [result EXCEPT
                     !.op = "evaluate_rules",
                     !.decision = <<evaluate(result.policy, result.call.action,
                                             result.call.actor_type, result.call.signer_role,
                                             result.call.payload, EmptyDict,
                                             result.call.approvals)>>]
    /\ UNCHANGED <<ledger, orders_view, inventory_view, new_orders, new_lots,
                   committed, failed, hashed, ConcIdle, RevealIdle, replay, MemoryIdle>>

NextRules == EvaluateRules

SpecRules == InitRules /\ [][NextRules]_vars

\* What the conditions of a rule are read in.
RuleContext(call) ==
    [action |-> call.action, actor_type |-> call.actor_type,
     signer_role |-> call.signer_role, payload |-> call.payload, tool_trace |-> EmptyDict,
     approvals |-> <<>>, derived |-> _derive_values(call.action, call.payload)]

\* The rule is of the action asked about and all its conditions hold.
Applies(rule, call) ==
    /\ rule.action = call.action
    /\ \A c \in 1..Len(rule.conditions) : _matches(rule.conditions[c], RuleContext(call))

\* The actor, the signer and the approvals meet the rule's constraints; the
\* approvals are the provided ones, the signer role and a role-like actor.
Meets(rule, call) ==
    /\ rule.required_actor_types = {} \/ call.actor_type \in rule.required_actor_types
    /\ rule.required_signer = "any" \/ call.signer_role = rule.required_signer
    /\ SeqToSet(rule.approval_chain)
          \subseteq (SeqToSet(call.approvals) \cup {call.signer_role}
                     \cup ({call.actor_type} \cap {"agent", "human", "auditor"}))

\* C34: evaluate decides by the first rule, in declared order, of the
\* action asked about whose conditions all hold: the decision names that
\* rule and allows exactly if the rule's actor types, signer and approval
\* chain are met; rules of another action or with a failing condition are
\* passed over, later rules are not consulted, and with no such rule no
\* rule is named.
C34_FirstApplicableRuleDecides ==
    result.op = "evaluate_rules" =>
        LET rules == result.policy.rules
            first == {i \in 1..Len(rules) :
                         /\ Applies(rules[i], result.call)
                         /\ \A j \in 1..(i - 1) : ~Applies(rules[j], result.call)}
        IN  /\ first = {} => result.decision[1].matched_rule_id = None
            /\ \A i \in first :
                  /\ result.decision[1].matched_rule_id = Some(rules[i].rule_id)
                  /\ result.decision[1].allowed <=> Meets(rules[i], result.call)

\* Two rules apply to the call; the first denied what the second would have
\* allowed.
C34_Witness ==
    /\ result.op = "evaluate_rules"
    /\ Len(result.policy.rules) = 2
    /\ Applies(result.policy.rules[1], result.call)
    /\ Applies(result.policy.rules[2], result.call)
    /\ ~Meets(result.policy.rules[1], result.call)
    /\ Meets(result.policy.rules[2], result.call)
    /\ ~result.decision[1].allowed
    /\ result.decision[1].matched_rule_id = Some(result.policy.rules[1].rule_id)

(***************************************************************************)
(* Receipts into a lot that exists (SpecCost): the stepping rebuild over   *)
(* two deliveries of one batch at two unit costs, a delivery that failed   *)
(* quality control, and a shipment, whose flush writes the pending lots.   *)
(***************************************************************************)
MaxCostEvents == 3

CostRequests ==
    {EventCreateRequest("GoodsReceived", "agent",
                        GoodsReceivedPayload("B1", 2, "2026-01-20", Some(200)), EmptyDict, Some(1)),
     EventCreateRequest("GoodsReceived", "agent",
                        GoodsReceivedPayload("B1", 3, "2026-01-20", Some(300)), EmptyDict, Some(1)),
     EventCreateRequest("GoodsReceived", "agent",
                        [GoodsReceivedPayload("B1", 5, "2026-01-20", Some(500))
                            EXCEPT !.qc_passed = FALSE], EmptyDict, Some(1)),
     EventCreateRequest("ShipmentDispatched", "agent", ShipmentPayload("O1", 1), EmptyDict,
                        Some(1))}

\* An append between two rebuilds.
AppendCostRequest ==
    /\ replay = NotReplaying
    /\ Len(ledger) < MaxCostEvents
    /\ \E request \in CostRequests :
          StoreAppend(request, load_role_key("agent"), FreshUuid(ledger), 1)

NextCost ==
    \/ AppendCostRequest
    \/ RebuildSteps
    \/ SessionCommit
    \/ SessionRollback

SpecCost == Init /\ [][NextCost]_vars

\* C35: replaying a GoodsReceived event that passed quality control into a
\* lot the table has (same sku and batch_id) leaves the lot with the added
\* quantity and the weighted average of the two unit costs, in integer
\* division; replaying one that failed quality control changes no lot.
C35_ReceiptAveragesUnitCost ==
    [][(InventoryEventReplayed /\ ledger[replay.at + 1].event_type = "GoodsReceived")
       => LET event == ledger[replay.at + 1]
              item == event.payload.items[1]
              key == <<item.sku, event.payload.batch_id>>
          IN  IF ~event.payload.qc_passed
              THEN inventory_view' = inventory_view /\ new_lots' = new_lots
              ELSE key \in DOMAIN inventory_view
                   => /\ inventory_view'[key].qty_on_hand
                            = inventory_view[key].qty_on_hand + item.qty
                      /\ inventory_view'[key].unit_cost_cents
                            = (inventory_view[key].qty_on_hand
                                  * inventory_view[key].unit_cost_cents
                               + item.qty * item.unit_cost[1])
                              \div (inventory_view[key].qty_on_hand + item.qty)
      ]_vars

(***************************************************************************)
(* build_commitments at each proof level (SpecDetail): the rebuild, the    *)
(* P&L and compute_disclosure over a ledger, and build_commitments called  *)
(* on their rows with a proof_level of the three ProofLevel names.         *)
(***************************************************************************)
ProofLevels == {"root_only", "root_plus_proof", "selective_disclosure_ready"}

BuildCommitments ==
    /\ ~failed
    /\ commitments.op = "none"
    /\ \E policy_id \in DOMAIN DEFAULT_POLICIES, period \in Periods, group_by \in GroupBys,
          proof_level \in ProofLevels :
       \E done \in {rebuild_all_read_models(
                        Session(orders_view, new_orders, inventory_view, new_lots), ledger)} :
       \E computation \in {Computed(ledger, DEFAULT_POLICIES[policy_id], period, group_by,
                                    done.costs)} :
       \E grouped \in {_apply_redaction(computation.grouped_metrics, policy_id)} :
          /\ done.error = ""
          /\ computation.error = ""
          /\ orders_view' = done.orders_view
          /\ new_orders' = done.new_orders
          /\ inventory_view' = done.inventory_view
          /\ new_lots' = done.new_lots
          /\ result' = [op |-> "build_commitments", proof_level |-> proof_level,
                        detail_event_map |-> computation.detail_event_map]
          /\ commitments' =
                [commitments EXCEPT
                    !.op = "first", !.policy_id = policy_id, !.period = period,
                    !.group_by = group_by,
                    !.metrics = computation.metrics,
                    !.grouped_metrics = grouped,
                    !.first = build_commitments(
                                  computation.metrics, grouped, policy_id,
                                  disclosure_policy_hash(DEFAULT_POLICIES[policy_id]), period,
                                  proof_level, computation.detail_event_map)]
          /\ UNCHANGED <<ledger, committed, hashed, failed, ConcIdle, RevealIdle, replay,
                         aggregate, merkle, DisclosureIdle>>

NextDetail == AppendCommitRequest \/ BuildCommitments

SpecDetail == Init /\ [][NextDetail]_vars

\* The hashes in ascending order of their texts, none twice.
Ascending(hashes) == \A i, j \in 1..Len(hashes) : i < j => hashes[i][2] < hashes[j][2]

\* The lookups in ascending order of their texts metric|group.
AscendingLookups(lookups) ==
    \A i, j \in 1..Len(lookups) :
        i < j => TupleLess(<<MetricRank(lookups[i][1]), GroupRank(lookups[i][2][2])>>,
                           <<MetricRank(lookups[j][1]), GroupRank(lookups[j][2][2])>>)

\* C36: under selective_disclosure_ready every committed leaf carries a
\* detail_root, the Merkle root of its sorted source event hashes, and is
\* hashed into the summary tree with it; every listed event hash has a proof
\* that verifies against that detail_root; root_details is the Merkle root
\* over the (lookup, detail_root) entries sorted by lookup.  Under root_only
\* and root_plus_proof no leaf has a detail_root, the detail index is empty
\* and root_details is null.
C36_DetailRootsOnlyWhenSelective ==
    (commitments.op = "first" /\ result.op = "build_commitments") =>
        LET r == commitments.first
            leafs == r.leaf_payloads
        IN  IF result.proof_level = "selective_disclosure_ready"
            THEN /\ \A i \in 1..Len(leafs) :
                       LET lookup == LookupOf(leafs[i])
                           source == Get(result.detail_event_map, lookup, <<>>)
                           entry == r.detail_index[lookup]
                       IN  /\ lookup \in DOMAIN r.detail_index
                           /\ SeqToSet(entry.event_hashes) = SeqToSet(source)
                           /\ Len(entry.event_hashes) = Len(source)
                           /\ Ascending(entry.event_hashes)
                           /\ leafs[i].detail_root = Some(root(MerkleTree(entry.event_hashes)))
                           /\ entry.detail_root = leafs[i].detail_root[1]
                           /\ \A k \in 1..Len(entry.event_hashes) :
                                 /\ entry.event_hashes[k] \in DOMAIN entry.event_proofs
                                 /\ verify_proof(entry.event_hashes[k],
                                                 entry.event_proofs[entry.event_hashes[k]],
                                                 entry.detail_root)
                           /\ r.proof_index[lookup].leaf_payload = leafs[i]
                           /\ r.proof_index[lookup].leaf_hash = hash_leaf_payload(leafs[i])
                 /\ r.root_summary =
                       root(MerkleTree([i \in 1..Len(leafs) |-> hash_leaf_payload(leafs[i])]))
                 /\ r.root_details # None
                 /\ \E lookups \in {SortedLookups(DOMAIN r.detail_index)} :
                       /\ SeqToSet(lookups) = DOMAIN r.detail_index
                       /\ AscendingLookups(lookups)
                       /\ r.root_details =
                             Some(root(MerkleTree(
                                 [i \in 1..Len(lookups) |->
                                     hash_leaf_payload(
                                         [lookup |-> lookups[i],
                                          detail_root |-> r.detail_index[lookups[i]].detail_root])])))
            ELSE /\ \A i \in 1..Len(leafs) : leafs[i].detail_root = None
                 /\ DOMAIN r.detail_index = {}
                 /\ r.root_details = None

\* A selective disclosure grouped by channel over three events of the
\* period: a scalar leaf with three source events, whose proofs have two
\* nodes, and the leaves of two channels.
C36_Witness ==
    /\ commitments.op = "first"
    /\ result.op = "build_commitments"
    /\ result.proof_level = "selective_disclosure_ready"
    /\ commitments.group_by = <<"channel">>
    /\ \E lookup \in DOMAIN commitments.first.detail_index :
          /\ Len(commitments.first.detail_index[lookup].event_hashes) = 3
          /\ \A h \in DOMAIN commitments.first.detail_index[lookup].event_proofs :
                Len(commitments.first.detail_index[lookup].event_proofs[h]) = 2
    /\ \E i, j \in 1..Len(commitments.first.leaf_payloads) :
          /\ commitments.first.leaf_payloads[i].group = ("channel" :> Some("online"))
          /\ commitments.first.leaf_payloads[j].group = ("channel" :> Some("offline"))
    /\ commitments.first.root_details # None

(***************************************************************************)
(* The reconciliation of a statement (SpecRecon): the first publish on a   *)
(* database whose events occurred on day 0 and day 1, for a period that    *)
(* holds both days or day 1 alone, followed through its steps as in        *)
(* SpecPublish.  The caller is the orchestrator's disclosure step, which   *)
(* names the period itself.                                                *)
(***************************************************************************)
MaxReconEvents == 3

\* A receipt of day 0, its shipment of day 1, and a payment of each day.
ReconRequests ==
    {EventCreateRequest("GoodsReceived", "agent",
                        GoodsReceivedPayload("B1", 2, "2026-01-20", Some(200)), EmptyDict, Some(0)),
     EventCreateRequest("ShipmentDispatched", "agent", ShipmentPayload("O1", 1), EmptyDict,
                        Some(1)),
     EventCreateRequest("PaymentCaptured", "agent", PaymentPayload("O1", 300), EmptyDict,
                        Some(0)),
     EventCreateRequest("PaymentCaptured", "agent", PaymentPayload("O1", 500), EmptyDict,
                        Some(1))}

ReconPeriods == {[start |-> 0, end |-> 2], [start |-> 1, end |-> 2]}

\* A business event is appended and committed before the publish.
AppendReconRequest ==
    /\ publish.pc = "idle"
    /\ publish.drawn = 0
    /\ Len(ledger) < MaxReconEvents
    /\ \E request \in ReconRequests :
       \E out \in {append(hashed, request, load_role_key("agent"), _latest_event_hash(ledger),
                          FreshUuid(ledger), today)} :
          /\ out.status = "ok"
          /\ ledger' = Inserted(ledger, out.added)
          /\ hashed' = Hashed(hashed, out.hash_input)
          /\ committed' = [committed EXCEPT !.ledger = ledger', !.hashed = hashed']
          /\ result' = Outcome("append", "ok", "", "")
    /\ UNCHANGED <<orders_view, inventory_view, new_orders, new_lots, failed, DisclosureTables,
                   committed_disclosure, publish, immudb, today, PublishRest>>

\* The disclosure step of AgentOrchestrator.run, lines 263-280, with the
\* period of the run's request.
DiscloseOverPeriod ==
    /\ publish.pc = "idle"
    /\ publish.drawn = 0
    /\ ~failed
    /\ \E policy_id \in DOMAIN DEFAULT_POLICIES, period \in ReconPeriods :
          Entered(policy_id, period, <<"channel">>)

NextRecon ==
    \/ AppendReconRequest
    \/ DiscloseOverPeriod
    \/ AnchorDisclosure
    \/ PersistRun
    \/ CommitPublish
    \/ RollbackPublish

SpecRecon == Init /\ [][NextRecon]_vars

\* The PaymentCaptured events of the rows that occurred in the period.
PaymentsOfPeriod(rows, period) ==
    SelectSeq(rows, LAMBDA e : /\ e.event_type = "PaymentCaptured"
                               /\ period.start <= e.occurred_at
                               /\ e.occurred_at < period.end)

\* C39: in every successful publish the payment_equals_revenue result of
\* the statement is passed: the sum of the PaymentCaptured amounts of the
\* period's events equals the revenue_cents the statement discloses.
C39_PaymentsEqualDisclosedRevenue ==
    publish.pc = "done" =>
        /\ Len(publish.reconciliation) = 3
        /\ publish.reconciliation[1].rule = "payment_equals_revenue"
        /\ publish.reconciliation[1].passed
        /\ \E i \in 1..Len(publish.metrics) :
              /\ publish.metrics[i].metric_key = "revenue_cents"
              /\ publish.metrics[i].value =
                    SumSeq([k \in 1..Len(PaymentsOfPeriod(ledger, publish.period)) |->
                               PaymentsOfPeriod(ledger, publish.period)[k].payload.amount])

\* A publish for day 1 alone returned over a ledger with a payment of each
\* day: 500 of the 800 captured are disclosed and reconciled.
C39_Witness ==
    /\ publish.pc = "done"
    /\ publish.period = [start |-> 1, end |-> 2]
    /\ Len(PaymentsOfPeriod(ledger, [start |-> 0, end |-> 2])) = 2
    /\ Len(PaymentsOfPeriod(ledger, publish.period)) = 1
    /\ MetricOf(publish.metrics, "revenue_cents", 0) = 500
    /\ publish.reconciliation[1].passed

\* C40: whenever the rebuild of the read models over the whole ledger
\* raises no negative-inventory error, the inventory_non_negative result of
\* a statement published for any period of that ledger is passed.
C40_NonNegativeAgreesWithRebuild ==
    (/\ publish.pc = "done"
     /\ rebuild_all_read_models(Session(orders_view, new_orders, inventory_view, new_lots),
                                ledger).error = "")
    => /\ publish.reconciliation[2].rule = "inventory_non_negative"
       /\ publish.reconciliation[2].passed

====
